---------------------------- MODULE Spec2Model ----------------------------
(***************************************************************************)
(* A model of mix-berry: the dataset ingestion-and-query engine            *)
(* (lib/dataset: parseCsvRows .. querySmoothies, getSmoothieBySlug) and    *)
(* the image-suggestion cache (lib/image-suggestions: getImageSuggestions, *)
(* initStore, persistStore).                                               *)
(*                                                                         *)
(* Strings are TLA+ strings used as sequences of characters (Len, SubSeq   *)
(* and \o act on them).  Code points outside Latin-1 cannot be written in  *)
(* a TLA+ string; the few the code names are encoded by the reserved       *)
(* characters listed under "alphabet".                                     *)
(***************************************************************************)
EXTENDS Integers, Sequences, FiniteSets, TLC

(***************************************************************************)
(* Alphabet                                                                *)
(***************************************************************************)
\* U+FEFF (byte-order mark), encoded.
BOM == "¬"
\* U+00A0 (no-break space), encoded.
NBSP == "¦"
DQ == "\""

Ch(s, i) == SubSeq(s, i, i)

\* v itself, chosen from {v}: a value bound by a set is evaluated once,
\* whereas an operator argument may be evaluated at each of its uses, and
\* comparing a function with itself has its values computed once instead
\* of at each application.
Evaluated(v) == CHOOSE x \in {v} : x = x

MinOf(S) == CHOOSE i \in S : \A j \in S : i <= j
MaxOf(S) == CHOOSE i \in S : \A j \in S : j <= i
Min(a, b) == IF a < b THEN a ELSE b
Max(a, b) == IF a > b THEN a ELSE b

\* s.slice(a - 1, b): the characters a..b of s that exist.
Slice(s, a, b) ==
  IF a > b \/ a > Len(s) THEN "" ELSE SubSeq(s, a, Min(b, Len(s)))

RECURSIVE ConcatRange(_, _, _)
\* Piece(lo) \o .. \o Piece(hi), split in halves to keep the evaluation
\* shallow.
ConcatRange(Piece(_), lo, hi) ==
  IF lo > hi THEN ""
  ELSE IF lo = hi THEN Piece(lo)
  ELSE ConcatRange(Piece, lo, (lo + hi) \div 2) \o ConcatRange(Piece, ((lo + hi) \div 2) + 1, hi)

RECURSIVE FoldRange(_, _, _, _)
\* Step(.. Step(Step(state, lo), lo + 1) .., hi): a loop over lo..hi.  The
\* first half is compared with itself to have it evaluated before the
\* second half begins.
FoldRange(Step(_, _), state, lo, hi) ==
  IF lo > hi THEN state
  ELSE IF lo = hi THEN Step(state, lo)
  ELSE LET Rest(left) == IF left = left THEN FoldRange(Step, left, ((lo + hi) \div 2) + 1, hi) ELSE left
       IN  Rest(FoldRange(Step, state, lo, (lo + hi) \div 2))

\* The members of a finite set of integers in increasing order.
SortedSeq(S) ==
  CHOOSE sorted \in {[k \in 1..Cardinality(T) |-> CHOOSE i \in T : Cardinality({j \in T : j < i}) = k - 1] :
                       T \in {S}} : sorted = sorted

\* Position of the first occurrence of character c in s, 0 when absent.
IndexOfChar(c, s) ==
  IF \A i \in 1..Len(s) : Ch(s, i) # c THEN 0
  ELSE MinOf({i \in 1..Len(s) : Ch(s, i) = c})

\* JavaScript's \s and String.prototype.trim() white space (both hold
\* U+00A0 and U+FEFF).
IsSpace(c) == c \in {" ", "\t", "\n", "\r", "\f", NBSP, BOM}

UpperLetters == "ABCDEFGHIJKLMNOPQRSTUVWXYZ"
LowerLetters == "abcdefghijklmnopqrstuvwxyz"
Digits == "0123456789"
\* Letters that NFD decomposes into a base letter and a combining mark of
\* U+0300..U+036F, and that base letter.
AccentedLetters == "àâäéèêëîïôöùûüçÀÂÄÉÈÊËÎÏÔÖÙÛÜÇ"
AccentBases == "aaaeeeeiioouuucAAAEEEEIIOOUUUC"

IsLowerAlnum(c) == \E i \in 1..36 : Ch(LowerLetters \o Digits, i) = c

\* The characters of from, each with the character of to at its place.
Translation(from, to) ==
  Evaluated([c \in {Ch(from, i) : i \in 1..Len(from)} |-> Ch(to, IndexOfChar(c, from))])

\* c.normalize("NFD") without its combining marks, for one character.
AccentTable == Translation(AccentedLetters, AccentBases)
StripAccent(c) == IF c \in DOMAIN AccentTable THEN AccentTable[c] ELSE c

\* c.toLowerCase() for one character.
LowerTable == Translation(UpperLetters, LowerLetters)
ToLowerChar(c) == IF c \in DOMAIN LowerTable THEN LowerTable[c] ELSE c

\* s with Op applied to each character.
MapChars(Op(_), s) == ConcatRange(LAMBDA i : Op(Ch(s, i)), 1, Len(s))

\* The part of s from the first to the last of the indexes kept.
Between(s, kept) == IF kept = {} THEN "" ELSE SubSeq(s, MinOf(kept), MaxOf(kept))

\* String.prototype.trim()
Trim(s) == Between(s, {i \in 1..Len(s) : ~IsSpace(Ch(s, i))})

\* s.includes(t)
Includes(s, t) ==
  \E i \in 1..(Len(s) - Len(t) + 1) : SubSeq(s, i, i + Len(t) - 1) = t

StartsWith(s, t) == Len(s) >= Len(t) /\ SubSeq(s, 1, Len(t)) = t
EndsWith(s, t) == Len(s) >= Len(t) /\ SubSeq(s, Len(s) - Len(t) + 1, Len(s)) = t

\* s.split(/[seps]/g): every separator character ends a piece, so n
\* separators give n + 1 pieces.
SplitOn(s, seps) ==
  LET Pieces(at) ==
        Evaluated([k \in 1..(Len(at) + 1) |->
                     Slice(s, IF k = 1 THEN 1 ELSE at[k - 1] + 1,
                              IF k = Len(at) + 1 THEN Len(s) ELSE at[k] - 1)])
  IN  Pieces(SortedSeq({i \in 1..Len(s) : \E j \in 1..Len(seps) : Ch(seps, j) = Ch(s, i)}))

\* parts.join(sep)
JoinWith(parts, sep) ==
  ConcatRange(LAMBDA k : IF k = 1 THEN parts[k] ELSE sep \o parts[k], 1, Len(parts))

\* values.filter(Keep)
FilterSeq(Keep(_), values) ==
  CHOOSE kept \in UNION {{[k \in 1..Len(at) |-> v[at[k]]] :
                            at \in {SortedSeq({k \in 1..Len(v) : Keep(v[k])})}} : v \in {values}} :
    kept = kept

SeqRange(s) == {s[i] : i \in 1..Len(s)}

RECURSIVE DecimalOf(_)
\* String(n) for a natural number.
DecimalOf(n) ==
  IF n < 10 THEN Ch(Digits, n + 1)
  ELSE DecimalOf(n \div 10) \o Ch(Digits, (n % 10) + 1)

(***************************************************************************)
(* Text normalizer (lib/dataset)                                           *)
(***************************************************************************)
\* value.replace(/\s+/g, " "): a run of white space leaves one space.
CollapseSpaces(s) ==
  ConcatRange(LAMBDA i : IF ~IsSpace(Ch(s, i)) THEN Ch(s, i)
                         ELSE IF i > 1 /\ IsSpace(Ch(s, i - 1)) THEN "" ELSE " ",
              1, Len(s))

normalizeWhitespace(value) == Trim(CollapseSpaces(value))

FoldChar(c) == ToLowerChar(StripAccent(c))

normalizeForSearch(value) == MapChars(FoldChar, normalizeWhitespace(value))

\* s.replace(/[^a-z0-9]+/g, "-")
HyphenateRuns(s) ==
  ConcatRange(LAMBDA i : IF IsLowerAlnum(Ch(s, i)) THEN Ch(s, i)
                         ELSE IF i > 1 /\ ~IsLowerAlnum(Ch(s, i - 1)) THEN "" ELSE "-",
              1, Len(s))

\* s.replace(/^-+|-+$/g, "")
TrimHyphens(s) == Between(s, {i \in 1..Len(s) : Ch(s, i) # "-"})

SLUG_MAX_LENGTH == 64

\* value || fallback
OrElse(value, fallback) == IF value = "" THEN fallback ELSE value

slugify(value) ==
  OrElse(Slice(TrimHyphens(HyphenateRuns(normalizeForSearch(value))), 1, SLUG_MAX_LENGTH), "smoothie")

\* values.map(Op)
MapSeq(Op(_), values) ==
  CHOOSE mapped \in {[k \in 1..Len(v) |-> Op(v[k])] : v \in {values}} : mapped = mapped

(***************************************************************************)
(* CSV tokenizer                                                           *)
(***************************************************************************)
stripBom(value) == IF value # "" /\ Head(value) = BOM THEN Tail(value) ELSE value

\* One turn of the loop of parseCsvRows, at index i (1-based) of text.  skip
\* tells that the turn before consumed this character too (its i += 1).
CsvStep(text, st, i) ==
  LET char == Ch(text, i)
      nextChar == IF i < Len(text) THEN Ch(text, i + 1) ELSE ""
      endRow == [st EXCEPT !.rows = Append(st.rows, Append(st.row, st.field)),
                           !.row = <<>>, !.field = ""]
  IN  IF st.skip THEN [st EXCEPT !.skip = FALSE]
      ELSE IF st.inQuotes
           THEN IF char = DQ
                THEN IF nextChar = DQ
                     THEN [st EXCEPT !.field = st.field \o DQ, !.skip = TRUE]
                     ELSE [st EXCEPT !.inQuotes = FALSE]
                ELSE [st EXCEPT !.field = st.field \o char]
      ELSE IF char = DQ THEN [st EXCEPT !.inQuotes = TRUE]
      ELSE IF char = "," THEN [st EXCEPT !.row = Append(st.row, st.field), !.field = ""]
      ELSE IF char = "\n" THEN endRow
      ELSE IF char = "\r" THEN [endRow EXCEPT !.skip = (nextChar = "\n")]
      ELSE [st EXCEPT !.field = st.field \o char]

\* A parseCsvRows that returns what the loop pushed, and no more.
parseCsvRowsNoFlush(csvText) ==
  FoldRange(LAMBDA st, i : CsvStep(stripBom(csvText), st, i),
            [rows |-> <<>>, row |-> <<>>, field |-> "", inQuotes |-> FALSE, skip |-> FALSE],
            1, Len(stripBom(csvText))).rows

parseCsvRows(csvText) ==
  LET Rows(end) ==
        IF Len(end.field) > 0 \/ Len(end.row) > 0
        THEN Append(end.rows, Append(end.row, end.field))
        ELSE end.rows
  IN  Rows(FoldRange(LAMBDA st, i : CsvStep(stripBom(csvText), st, i),
                     [rows |-> <<>>, row |-> <<>>, field |-> "", inQuotes |-> FALSE, skip |-> FALSE],
                     1, Len(stripBom(csvText))))

(***************************************************************************)
(* Loose record parser                                                     *)
(***************************************************************************)
\* U+201C, U+201D, U+2018, U+2019, U+2022 and U+0153, encoded.
LDQUO == "¨"
RDQUO == "´"
LSQUO == "¸"
RSQUO == "¯"
BULLET == "·"
OELIG == "¢"

\* Position of the first occurrence of c in s at or after from, 0 when none.
NextIndexOfChar(c, s, from) ==
  IF \A i \in from..Len(s) : Ch(s, i) # c THEN 0
  ELSE MinOf({i \in from..Len(s) : Ch(s, i) = c})

RECURSIVE QuotedSegments(_, _, _, _)
\* The first capture group of every match of /open([^close]+)close/g in raw
\* from index i on, in order: a match needs at least one character between
\* the two marks, and the scan resumes after the closing mark.
QuotedSegments(raw, open, close, i) ==
  LET Emit(o, c) ==
        IF o = 0 \/ c = 0 THEN <<>>
        ELSE IF c = o + 1 THEN QuotedSegments(raw, open, close, o + 1)
        ELSE <<SubSeq(raw, o + 1, c - 1)>> \o QuotedSegments(raw, open, close, c + 1)
      From(o) == Emit(o, IF o = 0 THEN 0 ELSE NextIndexOfChar(close, raw, o + 1))
  IN  From(NextIndexOfChar(open, raw, i))

NonEmpty(v) == v # ""

\* values.map(normalizeWhitespace).filter(Boolean)
NormalizedEntries(values) == FilterSeq(NonEmpty, MapSeq(normalizeWhitespace, values))

extractQuotedItems(raw) ==
  NormalizedEntries(QuotedSegments(raw, DQ, DQ, 1)) \o NormalizedEntries(QuotedSegments(raw, "«", "»", 1))

JsonSpace(c) == c \in {" ", "\t", "\n", "\r"}

\* String(JSON.parse(token)) for a token that is no string literal: a
\* literal name or a natural number without leading zero.
JsonBareOk(token) ==
  \/ token \in {"true", "false", "null"}
  \/ /\ token # ""
     /\ \A k \in 1..Len(token) : IndexOfChar(Ch(token, k), Digits) > 0
     /\ (Len(token) > 1 => Head(token) # "0")

NotParsed == [ok |-> FALSE, value |-> <<>>]

RECURSIVE JsonElements(_, _, _, _)
\* The elements of the JSON array whose text between the brackets is body,
\* read from index i on; want is "value" (an element is due), "first" (an
\* element or the end is due) or "comma".  NotParsed is JSON.parse
\* throwing.  Elements are string literals without escapes, literal names
\* and natural numbers: the cells of the model hold no other JSON.
JsonElements(body, i, acc, want) ==
  LET Literal(e, lit) ==
        IF e = 0 \/ \E k \in 1..Len(lit) : Ch(lit, k) \in {"\\", "\t", "\n", "\r", "\f"}
        THEN NotParsed
        ELSE JsonElements(body, e + 1, Append(acc, lit), "comma")
      LiteralTo(e) == Literal(e, SubSeq(body, i + 1, e - 1))
      Bare(stop, token) ==
        IF JsonBareOk(token) THEN JsonElements(body, stop, Append(acc, token), "comma")
        ELSE NotParsed
      BareTo(stop) == Bare(stop, SubSeq(body, i, stop - 1))
      At(c) ==
        IF JsonSpace(c) THEN JsonElements(body, i + 1, acc, want)
        ELSE IF want = "comma"
             THEN IF c = "," THEN JsonElements(body, i + 1, acc, "value") ELSE NotParsed
        ELSE IF c = DQ THEN LiteralTo(NextIndexOfChar(DQ, body, i + 1))
        ELSE BareTo(CHOOSE e \in i..(Len(body) + 1) :
                      /\ \A k \in i..(e - 1) : ~JsonSpace(Ch(body, k)) /\ Ch(body, k) # ","
                      /\ (e <= Len(body) => JsonSpace(Ch(body, e)) \/ Ch(body, e) = ","))
  IN  IF i > Len(body)
      THEN [ok |-> want \in {"first", "comma"}, value |-> acc]
      ELSE At(Ch(body, i))

\* JSON.parse(text) when text is an array: [ok, value] with the elements as
\* String(entry).
JsonParseArray(text) ==
  IF Len(text) >= 2 /\ Head(text) = "[" /\ Ch(text, Len(text)) = "]"
  THEN JsonElements(SubSeq(text, 2, Len(text) - 1), 1, <<>>, "first")
  ELSE NotParsed

NormalizeQuoteChar(c) ==
  IF c \in {"«", "»", LDQUO, RDQUO} THEN DQ
  ELSE IF c \in {LSQUO, RSQUO} THEN "'" ELSE c

\* NotParsed stands for null.
parseLooseJsonArray(raw) ==
  LET Entries(first, second) ==
        IF first.ok THEN [ok |-> TRUE, value |-> NormalizedEntries(first.value)]
        ELSE IF second.ok THEN [ok |-> TRUE, value |-> NormalizedEntries(second.value)]
        ELSE NotParsed
  IN  IF ~(StartsWith(Trim(raw), "[") /\ EndsWith(Trim(raw), "]")) THEN NotParsed
      ELSE Entries(JsonParseArray(Trim(raw)), JsonParseArray(MapChars(NormalizeQuoteChar, Trim(raw))))

RECURSIVE UniqueFrom(_, _)
UniqueFrom(values, seen) ==
  IF values = <<>> THEN <<>>
  ELSE IF Head(values) \in seen THEN UniqueFrom(Tail(values), seen)
       ELSE <<Head(values)>> \o UniqueFrom(Tail(values), seen \cup {Head(values)})

uniqueStrings(values) == UniqueFrom(values, {})

QuoteMarks == {"'", DQ, LDQUO, RDQUO, "«", "»"}

RECURSIVE StripQuoteMarks(_)
\* item.replace(/^['"...]+|['"...]+$/g, "")
StripQuoteMarks(item) ==
  IF item # "" /\ Head(item) \in QuoteMarks THEN StripQuoteMarks(Tail(item))
  ELSE IF item # "" /\ Ch(item, Len(item)) \in QuoteMarks
       THEN StripQuoteMarks(SubSeq(item, 1, Len(item) - 1))
       ELSE item

LongerThanOne(item) == Len(item) > 1

CleanNerItem(item) == normalizeWhitespace(StripQuoteMarks(item))

parseIngredientTokens(nerRaw, ingredientsRaw) ==
  LET Tokens(fromNer, quoted, split) ==
        IF Len(fromNer) > 0 THEN uniqueStrings(MapSeq(CleanNerItem, fromNer))
        ELSE IF Len(quoted) > 0 THEN uniqueStrings(quoted)
        ELSE uniqueStrings(FilterSeq(LongerThanOne, split))
      FromNer(loose, quoted) == IF loose.ok THEN loose.value ELSE quoted
  IN  Tokens(FromNer(parseLooseJsonArray(nerRaw), extractQuotedItems(nerRaw)),
             extractQuotedItems(ingredientsRaw),
             MapSeq(normalizeWhitespace, SplitOn(ingredientsRaw, ";,")))

parseIngredientLines(ingredientsRaw, ingredientTokens) ==
  LET Lines(quoted, split) ==
        IF Len(quoted) > 0 THEN quoted
        ELSE IF Len(split) >= 2 THEN split
        ELSE ingredientTokens
  IN  Lines(extractQuotedItems(ingredientsRaw), NormalizedEntries(SplitOn(ingredientsRaw, ";,")))

MAX_DIRECTIONS == 8

parseDirections(raw) ==
  LET Steps(parsed, quoted, split) ==
        IF parsed.ok /\ Len(parsed.value) > 0 THEN parsed.value
        ELSE IF Len(quoted) > 0 THEN quoted
        ELSE SubSeq(split, 1, Min(Len(split), MAX_DIRECTIONS))
  IN  Steps(parseLooseJsonArray(raw), extractQuotedItems(raw),
            NormalizedEntries(SplitOn(raw, ".;" \o BULLET)))

(***************************************************************************)
(* Image URL detection                                                     *)
(***************************************************************************)
IMAGE_EXTENSIONS == <<"jpg", "jpeg", "png", "webp", "gif">>

LowerCase(s) == MapChars(ToLowerChar, s)

\* Length of the first alternative of \.(?:jpg|jpeg|png|webp|gif) (flag i)
\* that matches value at index d, 0 when none does.
ExtensionAt(value, d) ==
  LET Length(ks) == IF ks = {} THEN 0 ELSE 1 + Len(IMAGE_EXTENSIONS[MinOf(ks)])
  IN  Length({k \in 1..Len(IMAGE_EXTENSIONS) :
                LowerCase(Slice(value, d, d + Len(IMAGE_EXTENSIONS[k]))) = "." \o IMAGE_EXTENSIONS[k]})

UrlChar(c) == ~IsSpace(c) /\ c \notin {DQ, "'", "<", ">"}

\* Last index of the match of prefix[^\s"'<>]+\.(ext) that starts at p with
\* a prefix of prefixLen characters, 0 when there is none: the greedy run
\* gives the rightmost extension.
UrlMatchEnd(value, p, prefixLen) ==
  LET Last(dots) == IF dots = {} THEN 0 ELSE MaxOf(dots)
      End(d) == IF d = 0 THEN 0 ELSE d + ExtensionAt(value, d) - 1
  IN  End(Last({d \in (p + prefixLen + 1)..Len(value) :
                  /\ \A k \in (p + prefixLen)..(d - 1) : UrlChar(Ch(value, k))
                  /\ ExtensionAt(value, d) > 0}))

\* value.match(/(https?:\/\/[^\s"'<>]+\.(?:jpg|..)|\/[^\s"'<>]+\.(?:jpg|..))/i):
\* the matched text, "" when there is no match.
ImageUrlMatch(value) ==
  LET Either(absolute, p) ==
        IF absolute > 0 THEN absolute
        ELSE IF Ch(value, p) = "/" THEN UrlMatchEnd(value, p, 1) ELSE 0
      EndAt(p) ==
        Either(IF LowerCase(Slice(value, p, p + 6)) = "http://" THEN UrlMatchEnd(value, p, 7)
               ELSE IF LowerCase(Slice(value, p, p + 7)) = "https://" THEN UrlMatchEnd(value, p, 8)
               ELSE 0, p)
      Text(ends, starts) ==
        IF starts = {} THEN "" ELSE SubSeq(value, MinOf(starts), ends[MinOf(starts)])
      Matched(ends) == Text(ends, {p \in 1..Len(value) : ends[p] > 0})
  IN  Matched(Evaluated([p \in 1..Len(value) |-> EndAt(p)]))

\* record[key] of the object rowToRecord fills from header and row, "" when
\* the key is no header cell: a later column of the same name overwrites an
\* earlier one, and a cell the row lacks is "".
RecordField(header, row, key) ==
  LET Cell(last) == IF last <= Len(row) THEN row[last] ELSE ""
      Value(cols) == IF cols = {} THEN "" ELSE Cell(MaxOf(cols))
  IN  Value({k \in 1..Len(header) : header[k] = key})

\* Object.values(record): one value per distinct key, in the order the keys
\* were first set.
RecordValues(header, row) ==
  LET Values(firsts) == MapSeq(LAMBDA k : RecordField(header, row, header[k]), firsts)
  IN  Values(SortedSeq({k \in 1..Len(header) : \A j \in 1..(k - 1) : header[j] # header[k]}))

PRIORITY_IMAGE_KEYS == <<"image", "image_url", "photo", "thumbnail", "img", "picture">>

\* The first of values that is not "", "" when there is none.
FirstNonEmpty(values) ==
  LET First(kept) == IF Len(kept) = 0 THEN "" ELSE kept[1]
  IN  First(FilterSeq(NonEmpty, values))

\* "" stands for null.
detectImageUrlFromRow(header, row) ==
  FirstNonEmpty(MapSeq(ImageUrlMatch,
                       FilterSeq(NonEmpty,
                                 MapSeq(LAMBDA key : RecordField(header, row, key), PRIORITY_IMAGE_KEYS))
                         \o RecordValues(header, row)))

(***************************************************************************)
(* Tag classifier                                                          *)
(***************************************************************************)
DAIRY_TERMS ==
  <<"lait", "yaourt", "yogurt", "yogourt", "fromage blanc", "kefir", "kéfir", "cream",
    "creme", "crème", "whey", "lactose", "lait en poudre", "lait concentre", "lait concentré">>
NON_VEGAN_EXTRA_TERMS == <<"miel", "gelatine", "gélatine", "oeuf", OELIG \o "uf">>
NUT_TERMS ==
  <<"amande", "amandes", "noix", "noisette", "noisettes", "cajou", "cashew", "pistache",
    "pistaches", "pecan", "pécan", "macadamia">>
PEANUT_TERMS == <<"cacahuete", "cacahuètes", "arachide", "peanut">>
SOY_TERMS == <<"soja", "soy">>
GLUTEN_TERMS ==
  <<"ble", "blé", "orge", "seigle", "avoine", "granola", "biscuit", "cookies", "cookie">>
SESAME_TERMS == <<"sesame", "sésame", "tahini">>

containsAny(haystacks, terms) ==
  \E normalizedTerm \in {normalizeForSearch(terms[t]) : t \in 1..Len(terms)} :
     normalizedTerm # "" /\ \E h \in 1..Len(haystacks) : Includes(haystacks[h], normalizedTerm)

\* The haystacks computeFlags searches.
FlagHaystacks(ingredientTokens, ingredientsRaw, directions) ==
  [k \in 1..Len(ingredientTokens) |-> normalizeForSearch(ingredientTokens[k])]
    \o <<normalizeForSearch(ingredientsRaw), normalizeForSearch(JoinWith(directions, " "))>>

NonVeganFlagMutant(hasLactose, normalizedHaystacks) ==
  containsAny(normalizedHaystacks, NON_VEGAN_EXTRA_TERMS)

\* const nonVegan = hasLactose || containsAny(.., NON_VEGAN_EXTRA_TERMS)
NonVeganFlag(hasLactose, normalizedHaystacks) ==
  hasLactose \/ containsAny(normalizedHaystacks, NON_VEGAN_EXTRA_TERMS)

\* The flags computeFlags returns, from its normalizedHaystacks.
TagsOf(normalizedHaystacks) ==
  [vegan |-> ~NonVeganFlag(containsAny(normalizedHaystacks, DAIRY_TERMS), normalizedHaystacks),
   lactose |-> containsAny(normalizedHaystacks, DAIRY_TERMS),
   nuts |-> containsAny(normalizedHaystacks, NUT_TERMS),
   peanut |-> containsAny(normalizedHaystacks, PEANUT_TERMS),
   soy |-> containsAny(normalizedHaystacks, SOY_TERMS),
   gluten |-> containsAny(normalizedHaystacks, GLUTEN_TERMS),
   sesame |-> containsAny(normalizedHaystacks, SESAME_TERMS)]

computeFlags(ingredientTokens, ingredientsRaw, directions) ==
  TagsOf(FlagHaystacks(ingredientTokens, ingredientsRaw, directions))

(***************************************************************************)
(* Seeded order score: a 32-bit value is the pair <<high, low>> of its     *)
(* 16-bit halves, so that no product leaves the range of the integers.     *)
(***************************************************************************)
HALF == 65536

\* The characters of codes 32..95 and 97..126, in order.
AsciiLow == " !" \o DQ \o "#$%&'()*+,-./0123456789:;<=>?@ABCDEFGHIJKLMNOPQRSTUVWXYZ[\\]^_"
AsciiHigh == "abcdefghijklmnopqrstuvwxyz{|}~"

CharCodes ==
  Evaluated([c \in {Ch(AsciiLow, i) : i \in 1..Len(AsciiLow)} \cup {Ch(AsciiHigh, i) : i \in 1..Len(AsciiHigh)} |->
               IF IndexOfChar(c, AsciiLow) > 0 THEN 31 + IndexOfChar(c, AsciiLow)
               ELSE 96 + IndexOfChar(c, AsciiHigh)])

\* value.charCodeAt(i) for these characters.
CharCode(c) == CharCodes[c]

RECURSIVE BitXor(_, _)
BitXor(a, b) ==
  IF a = 0 THEN b ELSE IF b = 0 THEN a
  ELSE ((a + b) % 2) + 2 * BitXor(a \div 2, b \div 2)

FNV_OFFSET_HIGH == 33052
FNV_OFFSET_LOW == 40389
FNV_PRIME_LOW == 403
FNV_PRIME_SHIFT == 256

\* hash ^= code; hash = Math.imul(hash, 16777619), with
\* 16777619 = 2^24 + 403.
HashStep(hash, code) ==
  LET Halves(low, product) ==
        <<(hash[1] * FNV_PRIME_LOW + (product \div HALF) + (low % FNV_PRIME_SHIFT) * FNV_PRIME_SHIFT) % HALF,
          product % HALF>>
      Times(low) == Halves(low, low * FNV_PRIME_LOW)
  IN  Times(BitXor(hash[2], code))

\* 2166136261 = 33052 * 65536 + 40389
hash32(value) ==
  FoldRange(LAMBDA hash, i : HashStep(hash, CharCode(Ch(value, i))),
            <<FNV_OFFSET_HIGH, FNV_OFFSET_LOW>>, 1, Len(value))

randomOrderScore(seed, id) == hash32(seed \o ":" \o id)

\* a.orderScore - b.orderScore < 0, = 0
ScoreLess(a, b) == a[1] < b[1] \/ (a[1] = b[1] /\ a[2] < b[2])

(***************************************************************************)
(* Dataset builder                                                         *)
(***************************************************************************)
\* null
Null == [null |-> TRUE]

\* The object rowToRecord returns.
RecordOfParts(numericId, title, ingredientsRaw, ingredientTokens, ingredientLines, directions, imageUrl) ==
  [id |-> "sm-" \o DecimalOf(numericId),
   slug |-> slugify(title) \o "-" \o DecimalOf(numericId),
   title |-> title,
   imageUrl |-> imageUrl,
   hasImage |-> imageUrl # "",
   ingredients |-> ingredientTokens,
   ingredientsRaw |-> normalizeWhitespace(ingredientsRaw),
   ingredientLines |-> ingredientLines,
   directions |-> directions,
   directionsPreview |-> IF Len(directions) > 0 THEN directions[1] ELSE "",
   tags |-> computeFlags(ingredientTokens, ingredientsRaw, directions),
   popularityScore |-> 0,
   searchBlob |-> normalizeForSearch(JoinWith(<<title, normalizeWhitespace(ingredientsRaw)>>
                                                \o ingredientTokens \o ingredientLines \o directions,
                                              " | ")),
   ingredientSlugs |-> uniqueStrings(MapSeq(slugify, ingredientTokens)),
   sortName |-> normalizeForSearch(title)]

\* rowToRecord from its ingredientTokens on.
RecordOfTokens(row, header, numericId, title, ingredientTokens) ==
  RecordOfParts(numericId, title, RecordField(header, row, "ingredients"), ingredientTokens,
                parseIngredientLines(RecordField(header, row, "ingredients"), ingredientTokens),
                parseDirections(RecordField(header, row, "directions")),
                detectImageUrlFromRow(header, row))

\* rowToRecord from its title on: a row without title gives null.
RecordOfTitle(row, header, numericId, title) ==
  IF title = "" THEN Null
  ELSE RecordOfTokens(row, header, numericId, title,
                      parseIngredientTokens(RecordField(header, row, "NER"),
                                            RecordField(header, row, "ingredients")))

\* The record rowToRecord builds.  portions, source and sourceLink, display
\* fields that no operation below reads, are left out.
rowToRecord(row, header, index) ==
  IF Len(row) = 0 \/ \A k \in 1..Len(row) : normalizeWhitespace(row[k]) = "" THEN Null
  ELSE RecordOfTitle(row, header, index + 1,
                     normalizeWhitespace(OrElse(RecordField(header, row, "title"),
                                                "Smoothie " \o DecimalOf(index + 1))))

\* The one-third sign of the source's set is outside Latin-1; no slug holds it.
STOP_INGREDIENTS ==
  {"cubes", "cube", "glacons", "glace", "glace-pilee", "eau", "eau-froide", "¼", "½", "de", "du", "des"}

PRESETS == <<"vegan", "lactose", "nuts", "peanut", "soy", "gluten", "sesame">>

matchesPreset(item, preset) ==
  CASE preset = "vegan" -> ~item.tags.vegan
    [] preset = "lactose" -> item.tags.lactose
    [] preset = "nuts" -> item.tags.nuts
    [] preset = "peanut" -> item.tags.peanut
    [] preset = "soy" -> item.tags.soy
    [] preset = "gluten" -> item.tags.gluten
    [] preset = "sesame" -> item.tags.sesame
    [] OTHER -> FALSE

\* Rows numbered by their place in the file.
AcceptedRowsByPosition(rows, header) ==
  LET Add(rawItems, recipe) == IF recipe = Null THEN rawItems ELSE Append(rawItems, recipe)
  IN  FoldRange(LAMBDA rawItems, i : Add(rawItems, rowToRecord(rows[i], header, i - 2)),
                <<>>, 2, Len(rows))

\* The first loop of loadDatasetInternal: rawItems grows by the rows
\* rowToRecord accepts, each numbered by the count of those before it.
AcceptedRows(rows, header) ==
  LET Add(rawItems, recipe) == IF recipe = Null THEN rawItems ELSE Append(rawItems, recipe)
  IN  FoldRange(LAMBDA rawItems, i : Add(rawItems, rowToRecord(rows[i], header, Len(rawItems))),
                <<>>, 2, Len(rows))

\* ingredientFreq.get(slug).count, 0 when the map has no such key.
IngredientCount(rawItems, slug) ==
  IF slug = "" \/ slug \in STOP_INGREDIENTS \/ Len(slug) < 2 THEN 0
  ELSE Cardinality({rk \in UNION {{<<r, k>> : k \in 1..Len(rawItems[r].ingredients)} : r \in 1..Len(rawItems)} :
                      slugify(rawItems[rk[1]].ingredients[rk[2]]) = slug})

POPULARITY_CAP == 400
VEGAN_BONUS == 40
LACTOSE_FREE_BONUS == 25
IMAGE_BONUS == 10

\* The second loop of loadDatasetInternal, for one recipe.
PopularityScore(rawItems, recipe) ==
  FoldRange(LAMBDA score, k :
              score + Min(IngredientCount(rawItems, slugify(recipe.ingredients[k])), POPULARITY_CAP),
            0, 1, Len(recipe.ingredients))
    + (IF recipe.tags.vegan THEN VEGAN_BONUS ELSE 0)
    + (IF ~recipe.tags.lactose THEN LACTOSE_FREE_BONUS ELSE 0)
    + (IF recipe.hasImage THEN IMAGE_BONUS ELSE 0)

\* A Map filled by set(key(item), item) over items in order, as key -> index
\* of the item the key ends up holding.
IndexBy(items, Key(_)) ==
  [key \in {Key(items[k]) : k \in 1..Len(items)} |->
     CHOOSE k \in 1..Len(items) :
       Key(items[k]) = key /\ \A o \in 1..Len(items) : Key(items[o]) = key => o <= k]

SlugOf(item) == item.slug
IdOf(item) == item.id

\* The second loop of loadDatasetInternal.
ScoredItems(rawItems) ==
  MapSeq(LAMBDA recipe : [recipe EXCEPT !.popularityScore = PopularityScore(rawItems, recipe)], rawItems)

\* The object loadDatasetInternal returns for a file with records.
CacheOfItems(items) ==
  [items |-> items,
   bySlug |-> IndexBy(items, SlugOf),
   byId |-> IndexBy(items, IdOf),
   meta |-> [total |-> Len(items),
             withImages |-> Cardinality({k \in 1..Len(items) : items[k].hasImage}),
             presetCounts |-> [p \in 1..Len(PRESETS) |->
                                 Cardinality({k \in 1..Len(items) : matchesPreset(items[k], PRESETS[p])})]]]

\* loadDatasetInternal from the rows of the file on.
DatasetOfRows(rows) ==
  IF Len(rows) < 2
  THEN [items |-> <<>>, bySlug |-> <<>>, byId |-> <<>>,
        meta |-> [total |-> 0, withImages |-> 0, presetCounts |-> <<>>]]
  ELSE CacheOfItems(ScoredItems(AcceptedRows(rows, MapSeq(normalizeWhitespace, rows[1]))))

\* The DatasetCache loadDatasetInternal resolves to for the file content
\* csvText.  meta keeps total, withImages and the preset counts; the sorted
\* option lists of the filter panel are left out.
BuildDataset(csvText) == DatasetOfRows(parseCsvRows(csvText))

(***************************************************************************)
(* Specimen CSV files                                                      *)
(***************************************************************************)
\* An ingredient of 65 characters: its slug is cut at 64, after the hyphen.
LongIngredient == "aaaaaaaaaaaaaaaaaaaaaaaaaaaaaaaaaaaaaaaaaaaaaaaaaaaaaaaaaaaaaaa b"

\* Five recipes and a blank row: a doubled title, a quoted cell with a
\* comma, a JSON list of ingredients, a CRLF line end.
SmallCsv ==
  "title,ingredients,NER,directions\n"
    \o "Lait fraise," \o DQ \o "lait, fraise" \o DQ \o ","
    \o DQ \o "[" \o DQ \o DQ \o "lait" \o DQ \o DQ \o ", " \o DQ \o DQ \o "fraise" \o DQ \o DQ \o "]" \o DQ \o ",Mixer.\n"
    \o ",,,\n"
    \o "Lait fraise,banane; eau,,\r\n"
    \o "Vert,," \o DQ \o "[" \o DQ \o DQ \o LongIngredient \o DQ \o DQ \o "]" \o DQ \o ",\n"
    \o "Tofu soja,tofu,,\n"
    \o "Amande," \o DQ \o "amande, miel" \o DQ \o ",,"

HeaderOnlyCsv == "title,ingredients,NER,directions\n"

\* A header and n recipes that are a title only: s1 .. sn.
TitlesCsv(n) == "title\n" \o ConcatRange(LAMBDA k : "s" \o DecimalOf(k) \o "\n", 1, n)

MediumCatalogRows == 26
BigCatalogRows == 61

\* The file at CSV_PATH: its text, or no readable file.
File(text) == [exists |-> TRUE, text |-> text]
MissingFile == [exists |-> FALSE, text |-> ""]

CsvTexts == <<"", HeaderOnlyCsv, SmallCsv, TitlesCsv(MediumCatalogRows), TitlesCsv(BigCatalogRows)>>

\* BuildDataset of each specimen text, evaluated once.
LoadedDatasets == Evaluated([k \in 1..Len(CsvTexts) |-> BuildDataset(CsvTexts[k])])

\* What the promise of loadDatasetInternal settles to: readFile rejects for
\* a file that cannot be read, and nothing catches it.
loadDatasetInternal(file) ==
  IF ~file.exists THEN [state |-> "rejected"]
  ELSE [state |-> "fulfilled",
        value |-> IF \E k \in 1..Len(CsvTexts) : CsvTexts[k] = file.text
                  THEN LoadedDatasets[CHOOSE k \in 1..Len(CsvTexts) : CsvTexts[k] = file.text]
                  ELSE BuildDataset(file.text)]

(***************************************************************************)
(* Query engine                                                            *)
(***************************************************************************)
\* A JavaScript number, undefined or null handed to or from the engine.
\* Numbers are integers here; NaN is what Number() gives for a value that
\* is no number.
Num(n) == [kind |-> "number", value |-> n]
NaN == [kind |-> "NaN", value |-> 0]
Undefined == [kind |-> "undefined", value |-> 0]
NullValue == [kind |-> "null", value |-> 0]

DEFAULT_LIMIT == 24
MAX_LIMIT == 60

\* A limit that ignores what is asked for.
LimitIgnored(raw) == DEFAULT_LIMIT

\* clampLimit of lib/dataset: !raw holds for undefined, null, 0 and NaN.
clampLimit(raw) ==
  IF raw.kind # "number" \/ raw.value = 0 THEN DEFAULT_LIMIT
  ELSE Max(1, Min(MAX_LIMIT, raw.value))

\* The characters sort names are made of, in the order localeCompare gives
\* them; any other character comes first.
CollationOrder == " -'0123456789abcdefghijklmnopqrstuvwxyz"

\* a.localeCompare(b) < 0
LocaleLess(a, b) ==
  LET Before(d) ==
        IF d > Len(a) THEN d <= Len(b)
        ELSE d <= Len(b) /\ IndexOfChar(Ch(a, d), CollationOrder) < IndexOfChar(Ch(b, d), CollationOrder)
  IN  Before(MinOf({i \in 1..(Min(Len(a), Len(b)) + 1) :
                      i > Len(a) \/ i > Len(b) \/ Ch(a, i) # Ch(b, i)}))

RECURSIVE Merge(_, _, _)
\* The merge of two sorted runs; of two elements neither of which is less,
\* the one of the left run goes first.
Merge(Less(_, _), left, right) ==
  IF Len(left) = 0 THEN right
  ELSE IF Len(right) = 0 THEN left
  ELSE IF Less(Head(right), Head(left)) THEN <<Head(right)>> \o Merge(Less, left, Tail(right))
  ELSE <<Head(left)>> \o Merge(Less, Tail(left), right)

RECURSIVE SortBy(_, _)
\* values.sort(compare) for a comparator that is negative exactly when
\* Less holds.  The sort is stable (ECMAScript 2019), so its result is the
\* one of a merge sort.
SortBy(Less(_, _), values) ==
  LET Merged(left, right) ==
        IF left = left /\ right = right THEN Merge(Less, left, right) ELSE values
      Halves(half) ==
        Merged(SortBy(Less, SubSeq(values, 1, half)), SortBy(Less, SubSeq(values, half + 1, Len(values))))
  IN  IF Len(values) < 2 THEN values ELSE Halves(Len(values) \div 2)

\* A slice that starts at the first element whatever a is.
SliceFromStart(values, a, b) ==
  CHOOSE slice \in {[k \in 1..(Min(b, Len(v)) - a + 1) |-> v[k]] : v \in {values}} : slice = slice

\* values.slice(a - 1, b) for an array.
SliceSeq(values, a, b) ==
  CHOOSE slice \in {[k \in 1..(Min(b, Len(v)) - a + 1) |-> v[a + k - 1]] : v \in {values}} : slice = slice

\* A 32-bit order score as its halves.
ScoreOf(n) == <<n \div HALF, n % HALF>>

toListItem(item, orderScore) ==
  [id |-> item.id,
   slug |-> item.slug,
   title |-> item.title,
   imageUrl |-> item.imageUrl,
   hasImage |-> item.hasImage,
   ingredients |-> item.ingredients,
   directionsPreview |-> item.directionsPreview,
   tags |-> item.tags,
   popularityScore |-> item.popularityScore,
   orderScore |-> orderScore]

\* options.sort || "random", options.seed && options.seed.trim() ? .. : "seed"
SortModeOf(options) == IF options.sort = "" THEN "random" ELSE options.sort
\* A seed that changes with the limit asked for.
SeedOfSlice(options) ==
  (IF Trim(options.seed) # "" THEN Trim(options.seed) ELSE "seed") \o DecimalOf(options.limit.value)

SeedOf(options) == IF Trim(options.seed) # "" THEN Trim(options.seed) ELSE "seed"

\* new Set(options.excludeIngredients.map(slugify))
ExcludedSlugs(options) == {slugify(options.excludeIngredients[k]) : k \in 1..Len(options.excludeIngredients)}

\* The filters of querySmoothies, (a) to (d).
Filtered(cache, options) ==
  LET Keep(searchTerms, excludeIngredients, excludePresets, includeIds) ==
        FilterSeq(LAMBDA item :
                    /\ includeIds # {} => item.id \in includeIds
                    /\ \A t \in 1..Len(searchTerms) : Includes(item.searchBlob, searchTerms[t])
                    /\ ~\E k \in 1..Len(item.ingredientSlugs) : item.ingredientSlugs[k] \in excludeIngredients
                    /\ ~\E preset \in excludePresets : matchesPreset(item, preset),
                  cache.items)
  IN  Keep(FilterSeq(NonEmpty, SplitOn(normalizeForSearch(normalizeWhitespace(options.q)), " ")),
           ExcludedSlugs(options),
           SeqRange(options.excludePresets),
           {Trim(options.includeIds[k]) : k \in 1..Len(options.includeIds)} \ {""})

\* decorated, after its sort.
Decorated(cache, options) ==
  LET NameLess(a, b) == LocaleLess(a.item.sortName, b.item.sortName)
      RandomLess(a, b) ==
        ScoreLess(a.orderScore, b.orderScore) \/ (a.orderScore = b.orderScore /\ NameLess(a, b))
      RatingLess(a, b) ==
        \/ b.item.popularityScore < a.item.popularityScore
        \/ b.item.popularityScore = a.item.popularityScore /\ NameLess(a, b)
      Sorted(sort, decorated) ==
        IF sort = "random" THEN SortBy(RandomLess, decorated)
        ELSE IF sort = "name" THEN SortBy(NameLess, decorated)
        ELSE SortBy(RatingLess, decorated)
      Scored(sort, seed, filtered) ==
        Sorted(sort, MapSeq(LAMBDA item :
                              [item |-> item,
                               orderScore |-> IF sort = "random" THEN randomOrderScore(seed, item.id)
                                              ELSE ScoreOf(item.popularityScore)],
                            filtered))
  IN  Scored(SortModeOf(options), SeedOf(options), Filtered(cache, options))

NoOptions ==
  [q |-> "", excludeIngredients |-> <<>>, excludePresets |-> <<>>, includeIds |-> <<>>,
   sort |-> "", seed |-> "", offset |-> Undefined, limit |-> Undefined]

\* The filters, sort modes, seeds and limits the pager chooses from.
PagerOptionSet ==
  {[NoOptions EXCEPT !.q = q, !.excludeIngredients = ex, !.excludePresets = presets,
                     !.sort = sort, !.seed = seed, !.limit = limit] :
     q \in {"", "Lait"},
     ex \in {<<>>, <<"Fraise">>},
     presets \in {<<>>, <<"vegan">>},
     sort \in {"", "rating", "name"},
     seed \in {"", "s1"},
     limit \in {Undefined, Num(1), Num(2), Num(100)}}

\* An options object without its slice.
Unsliced(options) == [options EXCEPT !.offset = Undefined, !.limit = Undefined]

\* Decorated of each specimen catalog for each query of the pager,
\* evaluated once.
SortedResults ==
  Evaluated([query \in (1..Len(CsvTexts)) \X {Unsliced(options) : options \in PagerOptionSet} |->
               Decorated(LoadedDatasets[query[1]], query[2])])

\* Decorated(cache, options), looked up in SortedResults when it is there.
DecoratedOf(cache, options) ==
  IF \E k \in 1..Len(CsvTexts) :
       LoadedDatasets[k] = cache /\ <<k, Unsliced(options)>> \in DOMAIN SortedResults
  THEN SortedResults[<<CHOOSE k \in 1..Len(CsvTexts) : LoadedDatasets[k] = cache, Unsliced(options)>>]
  ELSE Decorated(cache, options)

\* An offset that ignores what is asked for.
OffsetIgnored(options) == Num(0)

\* Math.max(0, Math.trunc(options.offset ?? 0)); NaN stays NaN.
OffsetOf(options) ==
  IF options.offset.kind = "NaN" THEN NaN
  ELSE IF options.offset.kind = "number" THEN Num(Max(0, options.offset.value))
  ELSE Num(0)

\* querySmoothies on the resolved cache.  A NaN offset slices from 0 to NaN,
\* which is empty, and no comparison with NaN holds.
querySmoothies(cache, options) ==
  LET Response(offset, limit, total, items) ==
        [items |-> items,
         total |-> total,
         offset |-> offset,
         nextOffset |-> IF offset.kind = "number" /\ offset.value + Len(items) < total
                        THEN Num(offset.value + Len(items)) ELSE NullValue,
         limit |-> limit]
      Page(offset, limit, decorated) ==
        Response(offset, limit, Len(decorated),
                 MapSeq(LAMBDA entry : toListItem(entry.item, entry.orderScore),
                        IF offset.kind = "NaN" THEN <<>>
                        ELSE SliceSeq(decorated, offset.value + 1, offset.value + limit)))
  IN  Page(OffsetOf(options), clampLimit(options.limit), DecoratedOf(cache, options))

\* Number(text) for the texts a slug can end with: decimal digits, or
\* nothing (0); any other text is taken as no number.
NumberOf(text) ==
  LET Parse(trimmed) ==
        IF \E k \in 1..Len(trimmed) : IndexOfChar(Ch(trimmed, k), Digits) = 0 THEN NaN
        ELSE Num(FoldRange(LAMBDA n, k : 10 * n + IndexOfChar(Ch(trimmed, k), Digits) - 1,
                           0, 1, Len(trimmed)))
  IN  Parse(Trim(text))

\* { ...record, orderScore: 0 }
WithOrderScore(item) ==
  [f \in DOMAIN item \cup {"orderScore"} |-> IF f = "orderScore" THEN ScoreOf(0) ELSE item[f]]

getSmoothieBySlug(cache, slug) ==
  LET ById(id) ==
        IF id \in DOMAIN cache.byId THEN WithOrderScore(cache.items[cache.byId[id]]) ELSE Null
      Fallback(numericSuffix) ==
        IF numericSuffix.kind = "number" /\ numericSuffix.value > 0
        THEN ById("sm-" \o DecimalOf(numericSuffix.value))
        ELSE Null
      Last(pieces) == pieces[Len(pieces)]
  IN  IF slug \in DOMAIN cache.bySlug THEN WithOrderScore(cache.items[cache.bySlug[slug]])
      ELSE Fallback(NumberOf(Last(SplitOn(slug, "-"))))

(***************************************************************************)
(* Image suggestions: query, limit and cache key (lib/image-suggestions)   *)
(***************************************************************************)
STOP_TERMS ==
  {"smoothie", "smoothies", "recette", "recipe", "drink", "boisson", "cube", "cubes", "glace",
   "glacons", "glaçons", "eau", "water", "sucre", "sugar", "yaourt", "yogurt", "lait", "milk"}

\* The own keys of TERM_TRANSLATION, each with its value.
TERM_TRANSLATION ==
  <<<<"banane", "banana">>, <<"bananes", "banana">>, <<"fraise", "strawberry">>,
    <<"fraises", "strawberry">>, <<"framboise", "raspberry">>, <<"framboises", "raspberry">>,
    <<"myrtille", "blueberry">>, <<"myrtilles", "blueberry">>, <<"mangue", "mango">>,
    <<"ananas", "pineapple">>, <<"kiwi", "kiwi">>, <<"peche", "peach">>, <<"peches", "peach">>,
    <<"pêche", "peach">>, <<"pêches", "peach">>, <<"pomme", "apple">>, <<"pommes", "apple">>,
    <<"poire", "pear">>, <<"poires", "pear">>, <<"orange", "orange">>, <<"oranges", "orange">>,
    <<"citron", "lemon">>, <<"citrons", "lemon">>, <<"lime", "lime">>, <<"limes", "lime">>,
    <<"raisin", "grape">>, <<"raisins", "grape">>, <<"avocat", "avocado">>,
    <<"avocats", "avocado">>, <<"coco", "coconut">>, <<"noix", "nut">>,
    <<"pasteque", "watermelon">>, <<"pastèque", "watermelon">>, <<"melon", "melon">>>>

\* What the term Object.prototype.constructor reads as in the joined query:
\* TERM_TRANSLATION is an object literal, and its lookup by a token finds
\* the one inherited property whose name can be a token.
ObjectConstructorText == "function Object() { [native code] }"

\* TERM_TRANSLATION[token] || token
Translated(token) ==
  IF token = "constructor" THEN ObjectConstructorText
  ELSE IF \E k \in 1..Len(TERM_TRANSLATION) : TERM_TRANSLATION[k][1] = token
  THEN TERM_TRANSLATION[CHOOSE k \in 1..Len(TERM_TRANSLATION) : TERM_TRANSLATION[k][1] = token][2]
  ELSE token

\* c stays if it is of [a-z0-9\s-], and becomes a space otherwise.
TermChar(c) == IF IsLowerAlnum(c) \/ IsSpace(c) \/ c = "-" THEN c ELSE " "

FoldTermChar(c) == TermChar(FoldChar(c))

normalizeTerm(input) == Trim(CollapseSpaces(MapChars(FoldTermChar, input)))

\* split(/[\s-]+/g) and filter(Boolean): the pieces between runs of spaces
\* and hyphens that are not empty.
splitTokens(input) == FilterSeq(NonEmpty, SplitOn(normalizeTerm(input), " -"))

MIN_TERM_LENGTH == 3
MAX_QUERY_TERMS == 5
TITLE_BELOW_TERMS == 3

\* One turn of the loop of consume(); seen holds what result holds.
ConsumeToken(result, token) ==
  IF Len(result) >= MAX_QUERY_TERMS \/ Len(token) < MIN_TERM_LENGTH \/ token \in STOP_TERMS
     \/ Translated(token) \in SeqRange(result)
  THEN result
  ELSE Append(result, Translated(token))

\* consume(value)
Consume(result, value) ==
  CHOOSE terms \in {FoldRange(LAMBDA acc, k : ConsumeToken(acc, tokens[k]), result, 1, Len(tokens)) :
                      tokens \in {splitTokens(value)}} : terms = terms

\* An absent title is the empty text: getImageSuggestions makes one of the
\* other (params.title?.trim() || undefined).
pickQueryTerms(title, tags) ==
  CHOOSE terms \in {IF Len(fromTags) < TITLE_BELOW_TERMS /\ title # "" THEN Consume(fromTags, title)
                    ELSE fromTags :
                      fromTags \in {FoldRange(LAMBDA acc, k : Consume(acc, tags[k]), <<>>, 1, Len(tags))}} :
    terms = terms

WithTerm(parts, term) == IF term \in SeqRange(parts) THEN parts ELSE Append(parts, term)

\* A buildImageQuery that adds nothing to the terms.
buildImageQueryTermsOnly(title, tags) ==
  OrElse(Trim(JoinWith(pickQueryTerms(title, tags), " ")), "fruit smoothie drink")

buildImageQuery(title, tags) ==
  OrElse(Trim(JoinWith(WithTerm(WithTerm(pickQueryTerms(title, tags), "smoothie"), "drink"), " ")),
         "fruit smoothie drink")

IMAGE_DEFAULT_LIMIT == 6
IMAGE_MAX_LIMIT == 10

\* clampLimit of lib/image-suggestions.
clampImageLimit(raw) ==
  IF raw.kind # "number" \/ raw.value = 0 THEN IMAGE_DEFAULT_LIMIT
  ELSE Max(1, Min(IMAGE_MAX_LIMIT, raw.value))

\* What makeCacheKey hashes: the key is its SHA-1, which tells two such
\* texts apart.
makeCacheKey(query, limit) == query \o "|" \o DecimalOf(limit)

(***************************************************************************)
(* Image suggestions: items, entries and the cache files                   *)
(***************************************************************************)
\* A number that JSON.parse gives for a literal too large for a double
\* (1e999), and that typeof calls a number.
Infinite == [kind |-> "Infinity", value |-> 0]

\* An ImageSuggestion.  The empty text stands for null in thumbUrl and
\* author: the fetchers and sanitizeItems give null wherever the text is
\* empty (value || null).
Suggestion(url, thumbUrl, provider, author, width, height) ==
  [url |-> url, thumbUrl |-> thumbUrl, provider |-> provider, author |-> author,
   width |-> width, height |-> height]

\* ensureHttpsUrl for a text; the empty text stands for its null.
ensureHttpsUrl(value) ==
  IF StartsWith(LowerCase(Trim(value)), "http://") \/ StartsWith(LowerCase(Trim(value)), "https://")
  THEN Trim(value)
  ELSE ""

\* One turn of the loop of sanitizeItems; seen holds the urls of output.
SanitizeStep(output, item) ==
  IF ensureHttpsUrl(item.url) = "" \/ \E k \in 1..Len(output) : output[k].url = ensureHttpsUrl(item.url)
  THEN output
  ELSE Append(output, [item EXCEPT !.url = ensureHttpsUrl(item.url),
                                   !.thumbUrl = ensureHttpsUrl(item.thumbUrl)])

\* Items left as they are.
Unsanitized(items) == items

sanitizeItems(items) ==
  CHOOSE output \in {FoldRange(LAMBDA acc, k : SanitizeStep(acc, v[k]), <<>>, 1, Len(v)) : v \in {items}} :
    output = output

MIN_CACHE_TTL_SECONDS == 3600
DEFAULT_CACHE_TTL_SECONDS == 1209600
MAX_EMPTY_CACHE_TTL_SECONDS == 21600
MS_PER_SECOND == 1000

\* A text that may be absent: a variable of process.env, a parameter of a
\* request.
NoText == [defined |-> FALSE, text |-> ""]
SomeText(text) == [defined |-> TRUE, text |-> text]

\* Math.max(a, n) and Math.min(a, n) for a number a and n a number or NaN.
MathMax(a, n) == IF n.kind = "NaN" THEN NaN ELSE Num(Max(a, n.value))
MathMin(n, a) == IF n.kind = "NaN" THEN NaN ELSE Num(Min(n.value, a))

\* ttl is process.env.IMAGE_CACHE_TTL_SECONDS.
CACHE_TTL_SECONDS(ttl) ==
  MathMax(MIN_CACHE_TTL_SECONDS,
          NumberOf(IF ttl.defined THEN ttl.text ELSE DecimalOf(DEFAULT_CACHE_TTL_SECONDS)))

\* An empty-result TTL that is half the long one.
HalfCacheTtl(ttl) ==
  IF CACHE_TTL_SECONDS(ttl).kind = "NaN" THEN NaN ELSE Num(CACHE_TTL_SECONDS(ttl).value \div 2)

EMPTY_CACHE_TTL_SECONDS(ttl) == MathMin(CACHE_TTL_SECONDS(ttl), MAX_EMPTY_CACHE_TTL_SECONDS)

\* now + seconds * 1000
ExpiresAt(now, seconds) ==
  IF seconds.kind = "NaN" THEN NaN ELSE Num(now + seconds.value * MS_PER_SECOND)

\* expiresAt > now and expiresAt < now, both false for a value that is no
\* number.
After(expiresAt, now) == expiresAt.kind = "number" /\ expiresAt.value > now
Before(expiresAt, now) == expiresAt.kind = "number" /\ expiresAt.value < now

\* JSON.stringify of a number: null for NaN and for an infinite one.
JsonNumber(v) == IF v.kind = "number" THEN v ELSE NullValue

JsonItem(item) == [item EXCEPT !.width = JsonNumber(@), !.height = JsonNumber(@)]

JsonEntry(entry) ==
  [entry EXCEPT !.createdAt = JsonNumber(@), !.expiresAt = JsonNumber(@), !.items = MapSeq(JsonItem, @)]

CACHE_FILE_VERSION == 1

\* What JSON.parse gives for JSON.stringify(payload): the payload of
\* persistStore as the file holds it.
JsonPayload(now, entries) ==
  [version |-> Num(CACHE_FILE_VERSION), updatedAt |-> Num(now), entries |-> MapSeq(JsonEntry, entries)]

\* A file: absent, or a text that JSON.parse rejects, or one it reads as doc.
NoFile == [exists |-> FALSE, valid |-> FALSE, doc |-> JsonPayload(0, <<>>)]
BrokenFile == [exists |-> TRUE, valid |-> FALSE, doc |-> JsonPayload(0, <<>>)]
JsonFile(doc) == [exists |-> TRUE, valid |-> TRUE, doc |-> doc]

\* The entries the filter of parseCacheFile keeps.  An entry of a document
\* is an object; absent names the properties it lacks, and the ones it has
\* are of the type a CacheEntry gives them, but for expiresAt, which may be
\* null.
KeptEntry(entry, now) ==
  /\ entry.absent \cap {"key", "query", "items", "expiresAt"} = {}
  /\ entry.expiresAt.kind = "number"
  /\ ~Before(entry.expiresAt, now)

SanitizedEntry(entry) == [entry EXCEPT !.items = sanitizeItems(@)]

parseCacheFile(doc, now) ==
  IF doc.version # Num(CACHE_FILE_VERSION) THEN <<>>
  ELSE MapSeq(SanitizedEntry, FilterSeq(LAMBDA entry : KeptEntry(entry, now), doc.entries))

\* readFile rejects for an absent file and JSON.parse throws for a broken
\* one; the catch answers [] to both.
readCacheEntries(file, now) ==
  IF ~file.exists \/ ~file.valid THEN <<>> ELSE parseCacheFile(file.doc, now)

\* entries.set(entry.key, entry) on a Map kept in insertion order.
SetEntry(entries, entry) ==
  IF \E k \in 1..Len(entries) : entries[k].key = entry.key
  THEN [k \in 1..Len(entries) |-> IF entries[k].key = entry.key THEN entry ELSE entries[k]]
  ELSE Append(entries, entry)

\* for (const entry of list) store.entries.set(entry.key, entry)
SetAll(entries, list) == FoldRange(LAMBDA acc, k : SetEntry(acc, list[k]), entries, 1, Len(list))

\* entries.get(key); Null stands for undefined.
GetEntry(entries, key) ==
  IF \E k \in 1..Len(entries) : entries[k].key = key
  THEN entries[CHOOSE k \in 1..Len(entries) : entries[k].key = key]
  ELSE Null

(***************************************************************************)
(* State                                                                   *)
(***************************************************************************)
VARIABLES
  csvFile,       \* the file at CSV_PATH
  datasetCache,  \* globalThis.__smoothiesDatasetCache: unset, or a promise
  csvReads,      \* readFile(CSV_PATH) calls made so far
  pager,         \* a client that follows nextOffset from offset 0
  visitors,      \* clients that send any query at any time
  auditor,       \* a client that lists the whole catalog, then opens each item
  clock,         \* Date.now(), in milliseconds
  env,           \* process.env: IMAGE_CACHE_TTL_SECONDS and the providers that have a key
  seedFile,      \* the file at CACHE_SEED_PATH
  runtimeFile,   \* the file at CACHE_RUNTIME_PATH
  tempFile,      \* the file at CACHE_RUNTIME_PATH + ".tmp"
  storePromise,  \* globalThis.__smoothiesImageSuggestionStorePromise and its two reads
  store,         \* the CacheStore of initStore: entries and writePromise
  writes,        \* the write sequences of persistStore that are under way
  requests,      \* the calls of getImageSuggestions
  process,       \* what is counted and remembered about the process
  queue,          \* queue of useSuggestedImage: the tasks that wait for a slot
  activeRequests, \* activeRequests of useSuggestedImage
  tasks,          \* every task given to enqueueRequest, in the order of the calls
  probe          \* a direct call of one function of the libraries, and what it returned

dataVars == <<csvFile, datasetCache, csvReads>>
clientVars == <<pager, visitors, auditor>>
imgVars == <<clock, env, seedFile, runtimeFile, tempFile, storePromise, store, writes, requests, process>>
hookVars == <<queue, activeRequests, tasks>>
vars == <<csvFile, datasetCache, csvReads, pager, visitors, auditor,
          clock, env, seedFile, runtimeFile, tempFile, storePromise, store, writes, requests, process,
          queue, activeRequests, tasks, probe>>

Visitors == {"v1", "v2"}

PagerIdle == [status |-> "idle", options |-> NoOptions, offset |-> Num(0), pages |-> <<>>]
VisitorIdle == [status |-> "idle", options |-> NoOptions]
AuditorIdle == [status |-> "idle"]
NoProbe == [fn |-> ""]

InitData(files) ==
  /\ csvFile \in files
  /\ datasetCache = [state |-> "unset"]
  /\ csvReads = 0
  /\ pager = PagerIdle
  /\ visitors = [v \in Visitors |-> VisitorIdle]
  /\ auditor = AuditorIdle
  /\ queue = <<>>
  /\ activeRequests = 0
  /\ tasks = <<>>
  /\ probe = NoProbe

(***************************************************************************)
(* Catalog cache (lib/dataset)                                             *)
(***************************************************************************)
\* A getCache() that starts loadDatasetInternal at every call.
LoadAtEachCall ==
  /\ datasetCache' = [state |-> "pending"]
  /\ csvReads' = csvReads + 1

\* getCache(), up to the promise it returns: the first caller starts
\* loadDatasetInternal, which runs up to its await of readFile.
GetCache ==
  IF datasetCache.state = "unset"
  THEN /\ datasetCache' = [state |-> "pending"]
       /\ csvReads' = csvReads + 1
  ELSE UNCHANGED <<datasetCache, csvReads>>

\* readFile settles and loadDatasetInternal runs to its end.
LoadSettle ==
  /\ datasetCache.state = "pending"
  /\ datasetCache' = loadDatasetInternal(csvFile)
  /\ UNCHANGED <<csvFile, csvReads, pager, visitors, auditor>>
  /\ UNCHANGED <<imgVars, hookVars, probe>>

Settled == datasetCache.state \in {"fulfilled", "rejected"}

(***************************************************************************)
(* Clients of the query engine                                             *)
(***************************************************************************)
IdsOf(items) == [k \in 1..Len(items) |-> items[k].id]

\* The first call: querySmoothies({ ..options, offset: 0 }) runs up to its
\* await of getCache().
PagerBegin ==
  /\ pager.status = "idle"
  /\ \E options \in PagerOptionSet :
       pager' = [status |-> "calling", options |-> options, offset |-> Num(0), pages |-> <<>>]
  /\ GetCache
  /\ UNCHANGED <<csvFile, visitors, auditor>>
  /\ UNCHANGED <<imgVars, hookVars, probe>>

\* The call goes on after the await: it throws for a rejected promise, and
\* answers a page otherwise.
PagerResume ==
  /\ pager.status = "calling"
  /\ Settled
  /\ IF datasetCache.state = "rejected"
     THEN pager' = [pager EXCEPT !.status = "failed"]
     ELSE \E response \in {querySmoothies(datasetCache.value, [pager.options EXCEPT !.offset = pager.offset])} :
            pager' = [pager EXCEPT !.status = IF response.nextOffset.kind = "null" THEN "done" ELSE "paused",
                                   !.offset = response.nextOffset,
                                   !.pages = Append(pager.pages, IdsOf(response.items))]
  /\ UNCHANGED <<csvFile, datasetCache, csvReads, visitors, auditor>>
  /\ UNCHANGED <<imgVars, hookVars, probe>>

\* The next call, with offset = the nextOffset just returned.
PagerNext ==
  /\ pager.status = "paused"
  /\ pager' = [pager EXCEPT !.status = "calling"]
  /\ GetCache
  /\ UNCHANGED <<csvFile, visitors, auditor>>
  /\ UNCHANGED <<imgVars, hookVars, probe>>

\* The queries a visitor chooses from.
VisitorOptionSet ==
  {[NoOptions EXCEPT !.excludeIngredients = filter[1], !.excludePresets = filter[2],
                     !.sort = sort, !.seed = seed, !.offset = slice[1], !.limit = slice[2]] :
     filter \in {<<<<>>, <<>>>>, <<<<"lait">>, <<>>>>, <<<<slugify(LongIngredient)>>, <<>>>>,
                 <<<<>>, <<"vegan">>>>},
     sort \in {"", "name"},
     seed \in {"", "s1"},
     slice \in {<<Undefined, Num(2)>>, <<Num(1), Num(3)>>, <<Undefined, Num(0)>>, <<Num(5), Undefined>>,
                <<Num(7), Num(100)>>}}

VisitCall(v) ==
  /\ visitors[v].status # "calling"
  /\ \E options \in VisitorOptionSet :
       visitors' = [visitors EXCEPT ![v] = [status |-> "calling", options |-> options]]
  /\ GetCache
  /\ UNCHANGED <<csvFile, pager, auditor>>
  /\ UNCHANGED <<imgVars, hookVars, probe>>

VisitResume(v) ==
  /\ visitors[v].status = "calling"
  /\ Settled
  /\ visitors' = [visitors EXCEPT ![v] =
       IF datasetCache.state = "rejected"
       THEN [status |-> "failed", options |-> visitors[v].options]
       ELSE [status |-> "returned", options |-> visitors[v].options,
             response |-> querySmoothies(datasetCache.value, visitors[v].options)]]
  /\ UNCHANGED <<csvFile, datasetCache, csvReads, pager, auditor>>
  /\ UNCHANGED <<imgVars, hookVars, probe>>

\* getDatasetMeta() by a visitor.
MetaCall(v) ==
  /\ visitors[v].status = "idle"
  /\ visitors' = [visitors EXCEPT ![v] = [status |-> "meta", options |-> NoOptions]]
  /\ GetCache
  /\ UNCHANGED <<csvFile, pager, auditor>>
  /\ UNCHANGED <<imgVars, hookVars, probe>>

MetaResume(v) ==
  /\ visitors[v].status = "meta"
  /\ Settled
  /\ visitors' = [visitors EXCEPT ![v] =
       IF datasetCache.state = "rejected" THEN [status |-> "failed", options |-> NoOptions]
       ELSE [status |-> "counted", options |-> NoOptions, meta |-> datasetCache.value.meta]]
  /\ UNCHANGED <<csvFile, datasetCache, csvReads, pager, auditor>>
  /\ UNCHANGED <<imgVars, hookVars, probe>>

\* getDatasetMeta()
AuditMetaCall ==
  /\ auditor.status = "idle"
  /\ auditor' = [status |-> "meta"]
  /\ GetCache
  /\ UNCHANGED <<csvFile, pager, visitors>>
  /\ UNCHANGED <<imgVars, hookVars, probe>>

AuditMetaResume ==
  /\ auditor.status = "meta"
  /\ Settled
  /\ auditor' = IF datasetCache.state = "rejected" THEN [status |-> "failed"]
                ELSE [status |-> "counted", meta |-> datasetCache.value.meta]
  /\ UNCHANGED <<csvFile, datasetCache, csvReads, pager, visitors>>
  /\ UNCHANGED <<imgVars, hookVars, probe>>

\* querySmoothies({ sort, limit: meta.total }): no filter, and the whole
\* catalog asked for.
AuditListCall ==
  /\ auditor.status = "counted"
  /\ \E sort \in {"", "rating", "name"} :
       auditor' = [status |-> "listing", meta |-> auditor.meta,
                   options |-> [NoOptions EXCEPT !.sort = sort, !.limit = Num(auditor.meta.total)]]
  /\ GetCache
  /\ UNCHANGED <<csvFile, pager, visitors>>
  /\ UNCHANGED <<imgVars, hookVars, probe>>

AuditListResume ==
  /\ auditor.status = "listing"
  /\ Settled
  /\ auditor' = [status |-> "listed", meta |-> auditor.meta, options |-> auditor.options,
                 list |-> querySmoothies(datasetCache.value, auditor.options), opened |-> 0]
  /\ UNCHANGED <<csvFile, datasetCache, csvReads, pager, visitors>>
  /\ UNCHANGED <<imgVars, hookVars, probe>>

\* getSmoothieBySlug(slug) for the slug of the next item of the list.
AuditOpenCall ==
  /\ auditor.status \in {"listed", "opened"}
  /\ auditor.opened < Len(auditor.list.items)
  /\ auditor' = [status |-> "opening", meta |-> auditor.meta, options |-> auditor.options,
                 list |-> auditor.list, opened |-> auditor.opened + 1]
  /\ GetCache
  /\ UNCHANGED <<csvFile, pager, visitors>>
  /\ UNCHANGED <<imgVars, hookVars, probe>>

AuditOpenResume ==
  /\ auditor.status = "opening"
  /\ Settled
  /\ auditor' = [status |-> "opened", meta |-> auditor.meta, options |-> auditor.options,
                 list |-> auditor.list, opened |-> auditor.opened,
                 detail |-> getSmoothieBySlug(datasetCache.value, auditor.list.items[auditor.opened].slug)]
  /\ UNCHANGED <<csvFile, datasetCache, csvReads, pager, visitors>>
  /\ UNCHANGED <<imgVars, hookVars, probe>>

(***************************************************************************)
(* Image suggestions: what the model feeds the cache with                  *)
(***************************************************************************)
Epoch == 1000
SeedExpiry == 1005
MaxTicks == 1
MaxCalls == 2
MaxClock == 900000000
MaxRestarts == 1

Requesters == {"r1", "r2"}
PROVIDERS == <<"pexels", "pixabay", "unsplash">>

PexelsPhoto ==
  Suggestion("https://images.pexels.com/photos/1/large.jpeg", "https://images.pexels.com/photos/1/small.jpeg",
             "pexels", "Ana", Num(1200), Num(800))
\* A photo without src: url "" and thumbUrl null.
PexelsNoSrc == Suggestion("", "", "pexels", "", NullValue, NullValue)
\* A hit whose imageWidth is written 1e999.
PixabayHit ==
  Suggestion("https://cdn.pixabay.com/photo/2.jpg", "https://cdn.pixabay.com/photo/2.jpg",
             "pixabay", "bob", Infinite, Num(600))
\* The photo of PexelsPhoto, found again.
UnsplashPhoto ==
  Suggestion(" https://images.pexels.com/photos/1/large.jpeg", "", "unsplash", "Cy", Num(1200), Num(800))

\* What the request of a fetcher comes to: photos, mapped to suggestions, or
\* a failure (fetch rejects or is aborted, the status is not 2xx, the body
\* is no JSON).  NoKey is the fetcher that has no key and makes no request.
Answer(items) == [failure |-> "", items |-> items]
Failure(kind) == [failure |-> kind, items |-> <<>>]
NoKey == Failure("no key")

ProviderOutcomes ==
  <<{Answer(<<PexelsPhoto, PexelsNoSrc>>), Answer(<<PexelsNoSrc>>), Failure("aborted")},
    {Answer(<<PixabayHit>>), Failure("HTTP 500")},
    {Answer(<<UnsplashPhoto>>), Failure("no JSON")}>>

\* The outcomes of the fetcher of PROVIDERS[index], given the keys set.
OutcomesOf(index, keys) == IF PROVIDERS[index] \in keys THEN ProviderOutcomes[index] ELSE {NoKey}

\* What a fetcher returns: [] from its early return and from its catch.
fetchFromProvider(outcome) == IF outcome.failure # "" THEN <<>> ELSE outcome.items

ImageParamSet ==
  {[title |-> call[1], tags |-> call[2], limit |-> call[3], forceRefresh |-> forceRefresh] :
     call \in {<<"", <<>>, Undefined>>, <<" Lait fraise ", <<"vegan", " ">>, Num(1)>>},
     forceRefresh \in BOOLEAN}

SeedEntry ==
  [key |-> makeCacheKey("smoothie drink", IMAGE_DEFAULT_LIMIT), query |-> "smoothie drink",
   createdAt |-> Num(0), expiresAt |-> Num(SeedExpiry), providers |-> <<"pexels">>,
   items |-> <<PexelsPhoto>>, absent |-> {}]

\* An entry made elsewhere: more items than the limit of its key, a url
\* that is not http(s) and one that is there twice.
ForeignEntry ==
  [key |-> makeCacheKey("vegan strawberry smoothie drink", 1), query |-> "vegan strawberry smoothie drink",
   createdAt |-> Num(0), expiresAt |-> Num(SeedExpiry), providers |-> <<"pexels", "unsplash">>,
   items |-> <<PexelsPhoto, Suggestion("ftp://example.org/3.jpg", "", "pexels", "", NullValue, NullValue),
               UnsplashPhoto, Suggestion("http://example.org/4.jpg", "", "unsplash", "", Num(4), Num(3))>>,
   absent |-> {}]

SeedFile == JsonFile(JsonPayload(0, <<SeedEntry, ForeignEntry>>))

\* A file of another version.
OtherVersionFile == JsonFile([JsonPayload(0, <<SeedEntry>>) EXCEPT !.version = Num(2)])

\* A file with entries that expired, that lack a property or have null for
\* expiresAt, and a live one.
MixedFile ==
  JsonFile(JsonPayload(0,
    <<[SeedEntry EXCEPT !.key = "expired", !.expiresAt = Num(Epoch - 1)],
      [SeedEntry EXCEPT !.key = "no items", !.absent = {"items"}, !.items = <<>>],
      [SeedEntry EXCEPT !.key = "no expiresAt", !.expiresAt = NullValue],
      [SeedEntry EXCEPT !.key = "no providers", !.absent = {"providers"}, !.providers = <<>>],
      [SeedEntry EXCEPT !.key = "no createdAt", !.absent = {"createdAt"}, !.createdAt = NullValue],
      [SeedEntry EXCEPT !.expiresAt = Num(SeedExpiry + 1), !.items = <<PixabayHit>>]>>))

Reading == [done |-> FALSE, entries |-> <<>>]
NoStorePromise == [state |-> "unset", seed |-> Reading, runtime |-> Reading, seedReads |-> 0, runtimeReads |-> 0]
NewStore == [entries |-> <<>>, writePromise |-> FALSE]

IdleRequest ==
  [status |-> "idle", params |-> [title |-> "", tags |-> <<>>, limit |-> Undefined, forceRefresh |-> FALSE],
   query |-> "", limit |-> 0, cacheKey |-> "", now |-> 0, found |-> Null, reloaded |-> Null,
   provider |-> 1, calls |-> <<>>, providersUsed |-> <<>>, combined |-> <<>>, response |-> Null,
   http |-> Null, answer |-> Null]

\* The calls, ticks and restarts the model has yet to make, the keys set by
\* this process, and the entries whose text tempFile and runtimeFile hold.
NewProcess(calls, ticks, restarts, staged, persisted, payloads) ==
  [calls |-> calls, ticks |-> ticks, restarts |-> restarts, fresh |-> {}, lost |-> {},
   staged |-> staged, persisted |-> persisted, payloads |-> payloads]

InitImage(ttls, keySets, files, calls, ticks, restarts) ==
  /\ clock = Epoch
  /\ env \in {[ttl |-> ttl, keys |-> keys] : ttl \in ttls, keys \in keySets}
  /\ \E pair \in files : seedFile = pair[1] /\ runtimeFile = pair[2]
  /\ tempFile = NoFile
  /\ storePromise = NoStorePromise
  /\ store = NewStore
  /\ writes = <<>>
  /\ requests = [r \in Requesters |-> IdleRequest]
  /\ process = NewProcess(calls, ticks, restarts, <<>>, <<>>, {})

(***************************************************************************)
(* Image cache store (lib/image-suggestions)                               *)
(***************************************************************************)
\* getStore(), up to the promise it returns: the first caller runs initStore
\* up to its await, with both files being read.
getStore ==
  IF storePromise.state = "unset"
  THEN /\ storePromise' = [storePromise EXCEPT !.state = "pending", !.seedReads = @ + 1,
                                                !.runtimeReads = @ + 1]
       /\ store' = NewStore
  ELSE UNCHANGED <<storePromise, store>>

\* The promise once a read has ended: fulfilled when both have.
PromiseAfterRead(promise) ==
  [promise EXCEPT !.state = IF promise.seed.done /\ promise.runtime.done THEN "fulfilled" ELSE "pending"]

\* An initStore that sets the runtime entries first, then the seed entries.
ReadSettleSeedLast(which) ==
  /\ storePromise.state = "pending"
  /\ ~storePromise[which].done
  /\ \E entries \in {readCacheEntries(IF which = "seed" THEN seedFile ELSE runtimeFile, clock)} :
     \E promise \in {PromiseAfterRead([storePromise EXCEPT ![which] = [done |-> TRUE, entries |-> entries]])} :
       /\ storePromise' = promise
       /\ store' = IF promise.state = "fulfilled"
                   THEN [store EXCEPT !.entries = SetAll(<<>>, promise.runtime.entries \o promise.seed.entries)]
                   ELSE store
  /\ UNCHANGED <<dataVars, clientVars, hookVars, probe, clock, env, seedFile, runtimeFile, tempFile, writes, requests, process>>

\* One readCacheEntries of initStore ends; after the second, initStore sets
\* the seed entries, then the runtime entries, and returns the store.
ReadSettle(which) ==
  /\ storePromise.state = "pending"
  /\ ~storePromise[which].done
  /\ \E entries \in {readCacheEntries(IF which = "seed" THEN seedFile ELSE runtimeFile, clock)} :
     \E promise \in {PromiseAfterRead([storePromise EXCEPT ![which] = [done |-> TRUE, entries |-> entries]])} :
       /\ storePromise' = promise
       /\ store' = IF promise.state = "fulfilled"
                   THEN [store EXCEPT !.entries = SetAll(<<>>, promise.seed.entries \o promise.runtime.entries)]
                   ELSE store
  /\ UNCHANGED <<dataVars, clientVars, hookVars, probe, clock, env, seedFile, runtimeFile, tempFile, writes, requests, process>>

\* A write sequence that starts although one is under way.
PersistAlways(st, inflight, now) ==
  [store |-> [st EXCEPT !.writePromise = TRUE],
   writes |-> Append(inflight, [phase |-> "mkdir", updatedAt |-> now, entries |-> st.entries])]

\* persistStore(store) up to the await of mkdir: the store and the write
\* sequences after it.  The payload holds the entries of that moment.
persistStore(st, inflight, now) ==
  IF st.writePromise THEN [store |-> st, writes |-> inflight]
  ELSE [store |-> [st EXCEPT !.writePromise = TRUE],
        writes |-> Append(inflight, [phase |-> "mkdir", updatedAt |-> now, entries |-> st.entries])]

WriteAt(i, phase) == [writes EXCEPT ![i].phase = phase]

\* A writeFile that writes over the runtime file.
WrittenInPlace(temp, runtime, text) == [temp |-> temp, runtime |-> text]

\* The two files after writeFile(tempPath, ..) has put text there.
Written(temp, runtime, text) == [temp |-> text, runtime |-> runtime]

\* mkdir, writeFile or rename of a write sequence ends well.
WriteStep(i) ==
  /\ i \in 1..Len(writes)
  /\ \/ /\ writes[i].phase = "mkdir"
        /\ writes' = WriteAt(i, "write")
        /\ UNCHANGED <<runtimeFile, tempFile, process>>
     \/ /\ writes[i].phase = "write"
        /\ writes' = WriteAt(i, "rename")
        /\ \E files \in {Written(tempFile, runtimeFile,
                                 JsonFile(JsonPayload(writes[i].updatedAt, writes[i].entries)))} :
             tempFile' = files.temp /\ runtimeFile' = files.runtime
        /\ process' = [process EXCEPT !.staged = writes[i].entries]
     \/ /\ writes[i].phase = "rename"
        /\ tempFile.exists
        /\ writes' = WriteAt(i, "finally")
        /\ runtimeFile' = tempFile
        /\ tempFile' = NoFile
        /\ process' = [process EXCEPT !.persisted = process.staged]
  /\ UNCHANGED <<dataVars, clientVars, hookVars, probe, clock, env, seedFile, storePromise, store, requests>>

\* The keys of the entries a write sequence was to write.
KeysOf(entries) == {entries[k].key : k \in 1..Len(entries)}

\* The process after mkdir, writeFile or rename of the write sequence i has
\* rejected, leaving temp in the temp file.
AfterFailure(i, temp) ==
  [process EXCEPT !.lost = @ \cup KeysOf(writes[i].entries),
                  !.staged = IF writes[i].phase # "write" \/ temp = tempFile THEN @ ELSE <<>>]

\* A failed write that takes its entries out of the index again.
WriteFailRollsBack(i) ==
  /\ i \in 1..Len(writes)
  /\ writes[i].phase \in {"mkdir", "write", "rename"}
  /\ writes' = WriteAt(i, "finally")
  /\ process' = AfterFailure(i, tempFile)
  /\ store' = [store EXCEPT !.entries = <<>>]
  /\ UNCHANGED <<dataVars, clientVars, hookVars, probe, clock, env, seedFile, runtimeFile, tempFile, storePromise, requests>>

\* One of them rejects, which the catch swallows.  A writeFile that fails
\* may leave a part of the text.
WriteFail(i) ==
  /\ i \in 1..Len(writes)
  /\ writes[i].phase \in {"mkdir", "write", "rename"}
  /\ writes' = WriteAt(i, "finally")
  /\ IF writes[i].phase = "write"
     THEN \E files \in {Written(tempFile, runtimeFile, tempFile), Written(tempFile, runtimeFile, BrokenFile)} :
            /\ tempFile' = files.temp
            /\ runtimeFile' = files.runtime
            /\ process' = AfterFailure(i, files.temp)
     ELSE /\ process' = AfterFailure(i, tempFile)
          /\ UNCHANGED <<tempFile, runtimeFile>>
  /\ UNCHANGED <<dataVars, clientVars, hookVars, probe, clock, env, seedFile, storePromise, store, requests>>

\* .finally(() => { store.writePromise = null })
WriteFinally(i) ==
  /\ i \in 1..Len(writes)
  /\ writes[i].phase = "finally"
  /\ writes' = SubSeq(writes, 1, i - 1) \o SubSeq(writes, i + 1, Len(writes))
  /\ store' = [store EXCEPT !.writePromise = FALSE]
  /\ UNCHANGED <<dataVars, clientVars, hookVars, probe, clock, env, seedFile, runtimeFile, tempFile, storePromise,
                 requests, process>>

(***************************************************************************)
(* getImageSuggestions                                                     *)
(***************************************************************************)
\* The call up to its await of getStore().
CallWith(params, query, limit) ==
  [IdleRequest EXCEPT !.status = "store", !.params = params, !.query = query, !.limit = limit,
                      !.cacheKey = makeCacheKey(query, limit)]

CallOf(params) ==
  CallWith(params, buildImageQuery(Trim(params.title), FilterSeq(NonEmpty, MapSeq(Trim, params.tags))),
           clampImageLimit(params.limit))

ImgCall(r) ==
  /\ requests[r].status \in {"idle", "returned"}
  /\ process.calls > 0
  /\ \E params \in ImageParamSet : requests' = [requests EXCEPT ![r] = CallOf(params)]
  /\ process' = [process EXCEPT !.calls = @ - 1]
  /\ getStore
  /\ UNCHANGED <<dataVars, clientVars, hookVars, probe, clock, env, seedFile, runtimeFile, tempFile, writes>>

\* An entry counts as live up to and at its expiresAt.
LiveAtExpiry(expiresAt, now) == expiresAt.kind = "number" /\ expiresAt.value >= now

\* cached.expiresAt > now
Live(expiresAt, now) == After(expiresAt, now)

\* A cache that answers a forced call too.
UsesCacheForced(cached, now, forceRefresh) == cached # Null /\ Live(cached.expiresAt, now)

\* cached && cached.expiresAt > now && !params.forceRefresh
UsesCache(cached, now, forceRefresh) ==
  cached # Null /\ Live(cached.expiresAt, now) /\ ~forceRefresh

HitResponse(request, cached) ==
  [query |-> request.query, cacheKey |-> request.cacheKey, cacheHit |-> TRUE,
   providersUsed |-> cached.providers, items |-> SliceSeq(cached.items, 1, request.limit),
   absent |-> IF "providers" \in cached.absent THEN {"providersUsed"} ELSE {}]

\* The call goes on once the store is there: it answers from the cache, or
\* calls the first fetcher.
Looked(request, cached, now, reloaded) ==
  IF UsesCache(cached, now, request.params.forceRefresh)
  THEN [request EXCEPT !.status = "returned", !.now = now, !.found = cached, !.reloaded = reloaded,
                       !.response = HitResponse(request, cached)]
  ELSE [request EXCEPT !.status = "fetching", !.now = now, !.found = cached, !.reloaded = reloaded,
                       !.provider = 1]

ImgLookup(r) ==
  /\ requests[r].status = "store"
  /\ storePromise.state = "fulfilled"
  /\ requests' = [requests EXCEPT ![r] = Looked(@, GetEntry(store.entries, @.cacheKey), clock,
                                                IF @.cacheKey \in process.fresh THEN Null
                                                ELSE GetEntry(process.persisted, @.cacheKey))]
  /\ UNCHANGED <<dataVars, clientVars, hookVars, probe, clock, env, seedFile, runtimeFile, tempFile, storePromise,
                 store, writes, process>>

\* The call a request remembers: the provider, how its fetcher ended and how
\* many items it returned.
CallTo(request, outcome, items) ==
  [provider |-> PROVIDERS[request.provider], failure |-> outcome.failure, count |-> Len(items)]

\* A loop that ends with the first fetcher that fails.
FetchedUntilFailure(request, outcome, items) ==
  [request EXCEPT !.calls = Append(@, CallTo(request, outcome, items)),
                  !.provider = IF outcome.failure # "" \/ Len(request.combined) + Len(items) >= request.limit
                               THEN Len(PROVIDERS) + 1 ELSE @ + 1,
                  !.providersUsed = IF items = <<>> THEN @ ELSE Append(@, PROVIDERS[request.provider]),
                  !.combined = @ \o items]

\* A loop that calls every fetcher.
FetchedFromAll(request, outcome, items) ==
  [request EXCEPT !.calls = Append(@, CallTo(request, outcome, items)),
                  !.provider = @ + 1,
                  !.providersUsed = IF items = <<>> THEN @ ELSE Append(@, PROVIDERS[request.provider]),
                  !.combined = @ \o items]

\* A loop that ends with the first fetcher that returns an item.
FetchedUntilItems(request, outcome, items) ==
  [request EXCEPT !.calls = Append(@, CallTo(request, outcome, items)),
                  !.provider = IF items # <<>> THEN Len(PROVIDERS) + 1 ELSE @ + 1,
                  !.providersUsed = IF items = <<>> THEN @ ELSE Append(@, PROVIDERS[request.provider]),
                  !.combined = @ \o items]

\* A loop that lists every provider it has called.
FetchedListsCalled(request, outcome, items) ==
  [request EXCEPT !.calls = Append(@, CallTo(request, outcome, items)),
                  !.provider = IF items # <<>> /\ Len(request.combined) + Len(items) >= request.limit
                               THEN Len(PROVIDERS) + 1 ELSE @ + 1,
                  !.providersUsed = Append(@, PROVIDERS[request.provider]),
                  !.combined = @ \o items]

\* The loop of fetchProviderResults after a fetcher has returned items: the
\* next provider is past the last one when the loop breaks.
Fetched(request, outcome, items) ==
  [request EXCEPT !.calls = Append(@, CallTo(request, outcome, items)),
                  !.provider = IF items # <<>> /\ Len(request.combined) + Len(items) >= request.limit
                               THEN Len(PROVIDERS) + 1 ELSE @ + 1,
                  !.providersUsed = IF items = <<>> THEN @ ELSE Append(@, PROVIDERS[request.provider]),
                  !.combined = @ \o items]

\* nextEntry
NextEntry(request, items, ttl) ==
  [key |-> request.cacheKey, query |-> request.query, createdAt |-> Num(request.now),
   expiresAt |-> ExpiresAt(request.now, IF items # <<>> THEN CACHE_TTL_SECONDS(ttl)
                                        ELSE EMPTY_CACHE_TTL_SECONDS(ttl)),
   providers |-> request.providersUsed, items |-> items, absent |-> {}]

MissResponse(request, entry) ==
  [request EXCEPT !.status = "returned",
                  !.response = [query |-> request.query, cacheKey |-> request.cacheKey, cacheHit |-> FALSE,
                                providersUsed |-> entry.providers, items |-> entry.items,
                                absent |-> {}]]

\* A fetcher answers.  After the last one the call sanitizes and cuts what
\* was found, sets the entry, starts persistStore and returns.
ImgFetch(r) ==
  /\ requests[r].status = "fetching"
  /\ \E outcome \in OutcomesOf(requests[r].provider, env.keys) :
     \E request \in {Fetched(requests[r], outcome, fetchFromProvider(outcome))} :
       IF request.provider <= Len(PROVIDERS)
       THEN /\ requests' = [requests EXCEPT ![r] = request]
            /\ UNCHANGED <<store, writes, process>>
       ELSE \E entry \in {NextEntry(request, SliceSeq(sanitizeItems(request.combined), 1, request.limit),
                                    env.ttl)} :
            \E saved \in {persistStore([store EXCEPT !.entries = SetEntry(@, entry)], writes, clock)} :
              /\ requests' = [requests EXCEPT ![r] = MissResponse(request, entry)]
              /\ store' = saved.store
              /\ writes' = saved.writes
              /\ process' = [process EXCEPT
                   !.fresh = @ \cup {entry.key},
                   !.payloads = IF saved.writes = writes THEN @
                                ELSE @ \cup {JsonFile(JsonPayload(clock, saved.store.entries))}]
  /\ UNCHANGED <<dataVars, clientVars, hookVars, probe, clock, env, seedFile, runtimeFile, tempFile, storePromise>>

(***************************************************************************)
(* Time and the process                                                    *)
(***************************************************************************)
\* The instants next to which an entry changes from live to expired.
ExpiryInstants(entries) ==
  UNION {{entries[k].expiresAt.value - 1, entries[k].expiresAt.value, entries[k].expiresAt.value + 1} :
           k \in {j \in 1..Len(entries) : entries[j].expiresAt.kind = "number"}}

\* Time passes, up to an instant where something may change.
Tick ==
  /\ process.ticks > 0
  /\ \E instant \in {clock + 1} \cup ExpiryInstants(store.entries \o seedFile.doc.entries
                                                      \o runtimeFile.doc.entries) :
       /\ instant > clock
       /\ instant <= MaxClock
       /\ clock' = instant
  /\ process' = [process EXCEPT !.ticks = @ - 1]
  /\ UNCHANGED <<dataVars, clientVars, hookVars, probe, env, seedFile, runtimeFile, tempFile, storePromise, store,
                 writes, requests>>

\* The process ends and another one starts: the files stay, nothing else
\* does.
Restart ==
  /\ process.restarts > 0
  /\ datasetCache' = [state |-> "unset"]
  /\ csvReads' = 0
  /\ pager' = PagerIdle
  /\ visitors' = [v \in Visitors |-> VisitorIdle]
  /\ auditor' = AuditorIdle
  /\ storePromise' = NoStorePromise
  /\ store' = NewStore
  /\ writes' = <<>>
  /\ requests' = [r \in Requesters |-> IdleRequest]
  /\ process' = NewProcess(process.calls, process.ticks, process.restarts - 1, process.staged, process.persisted,
                          process.payloads)
  /\ UNCHANGED <<csvFile, clock, env, seedFile, runtimeFile, tempFile, hookVars, probe>>

(***************************************************************************)
(* The route /api/image-suggestions                                        *)
(***************************************************************************)
Text(s) == [kind |-> "string", text |-> s]
BoolValue(b) == [kind |-> "boolean", flag |-> b]

\* searchParams.get(name) ?? undefined
ParamValue(param) == IF param.defined THEN Text(param.text) ELSE Undefined

\* String(entry) of a string or of a natural number.
StringOfValue(v) == IF v.kind = "number" THEN DecimalOf(v.value) ELSE v.text

parseTagsCsv(param) ==
  IF ~param.defined \/ param.text = "" THEN <<>>
  ELSE FilterSeq(NonEmpty, MapSeq(Trim, SplitOn(param.text, ",")))

parseLimit(value) ==
  LET Finite(numeric) == IF numeric.kind = "number" THEN numeric ELSE Undefined
  IN  Finite(IF value.kind = "number" THEN value
             ELSE IF value.kind = "string" THEN NumberOf(value.text)
             ELSE NaN)

parseBoolean(value) ==
  IF value.kind = "boolean" THEN value.flag
  ELSE IF value.kind # "string" THEN FALSE
  ELSE LowerCase(value.text) \in {"1", "true", "yes"}

\* The requests sent to the route. A GET has its search parameters; a POST
\* has a body that is no JSON, the JSON null, or an object.
GetRequests ==
  {[method |-> "GET", title |-> title, tags |-> tags, limit |-> more[1], refresh |-> more[2]] :
     title \in {NoText, SomeText(""), SomeText(" "), SomeText("Lait fraise")},
     tags \in {NoText, SomeText(" , "), SomeText("vegan, ")},
     more \in {<<NoText, NoText>>, <<SomeText("1"), SomeText("TRUE")>>, <<SomeText("abc"), SomeText("0")>>}}

NotAnArray == [array |-> FALSE, values |-> <<>>]
ArrayOf(values) == [array |-> TRUE, values |-> values]

PostRequests ==
  {[method |-> "POST", body |-> "no JSON"], [method |-> "POST", body |-> "null"]}
  \cup {[method |-> "POST", body |-> "object", title |-> title, tags |-> tags,
         limit |-> more[1], refresh |-> more[2]] :
          title \in {Undefined, Text("  "), Text(" Lait fraise ")},
          tags \in {NotAnArray, ArrayOf(<<Text(" ")>>), ArrayOf(<<Num(5), Text(" vegan")>>)},
          more \in {<<Undefined, Undefined>>, <<Text("1"), BoolValue(TRUE)>>, <<Num(0), Text("yes")>>}}

\* body = {} when request.json() throws.
EmptyBody ==
  [method |-> "POST", body |-> "object", title |-> Undefined, tags |-> NotAnArray,
   limit |-> Undefined, refresh |-> Undefined]

\* What the handler passes on: title is "" where the code has undefined.
GetParams(http) ==
  [title |-> http.title.text, tags |-> parseTagsCsv(http.tags),
   limit |-> parseLimit(ParamValue(http.limit)), forceRefresh |-> parseBoolean(ParamValue(http.refresh))]

PostParams(body) ==
  [title |-> IF body.title.kind = "string" THEN Trim(body.title.text) ELSE "",
   tags |-> IF body.tags.array THEN FilterSeq(NonEmpty, MapSeq(LAMBDA v : Trim(StringOfValue(v)), body.tags.values))
            ELSE <<>>,
   limit |-> parseLimit(body.limit), forceRefresh |-> parseBoolean(body.refresh)]

RouteResponse(status, body) == [status |-> status, body |-> body]

\* !title && tags.length === 0
MissingParameters(params) == params.title = "" /\ params.tags = <<>>

\* The handler up to its return of 400 or its await of getImageSuggestions,
\* which runs up to its await of getStore().
Routed(r, http, params) ==
  /\ requests[r].status \in {"idle", "answered"}
  /\ process.calls > 0
  /\ process' = [process EXCEPT !.calls = @ - 1]
  /\ IF MissingParameters(params)
     THEN /\ requests' = [requests EXCEPT ![r] =
                            [IdleRequest EXCEPT !.status = "answered", !.http = http,
                               !.answer = RouteResponse(400, "Missing parameters: provide title or tags")]]
          /\ UNCHANGED <<storePromise, store>>
     ELSE /\ requests' = [requests EXCEPT ![r] = [CallOf(params) EXCEPT !.http = http]]
          /\ getStore
  /\ UNCHANGED <<dataVars, clientVars, hookVars, probe, clock, env, seedFile, runtimeFile, tempFile, writes>>

RouteGet(r) == \E http \in GetRequests : Routed(r, http, GetParams(http))

\* body.tags of the body null throws a TypeError that nothing catches.
RoutePost(r) ==
  \E http \in PostRequests :
    IF http.body = "null"
    THEN /\ requests[r].status \in {"idle", "answered"}
         /\ process.calls > 0
         /\ process' = [process EXCEPT !.calls = @ - 1]
         /\ requests' = [requests EXCEPT ![r] =
                           [IdleRequest EXCEPT !.status = "answered", !.http = http,
                              !.answer = RouteResponse(500, "TypeError")]]
         /\ UNCHANGED <<dataVars, clientVars, hookVars, probe, clock, env, seedFile, runtimeFile, tempFile, storePromise,
                        store, writes>>
    ELSE Routed(r, http, PostParams(IF http.body = "no JSON" THEN EmptyBody ELSE http))

\* Response.json(payload)
RouteReturn(r) ==
  /\ requests[r].status = "returned"
  /\ requests[r].http # Null
  /\ requests' = [requests EXCEPT ![r].status = "answered",
                                  ![r].answer = RouteResponse(200, requests[r].response)]
  /\ UNCHANGED <<dataVars, clientVars, hookVars, probe, clock, env, seedFile, runtimeFile, tempFile, storePromise,
                 store, writes, process>>

(***************************************************************************)
(* Specifications of the query engine                                      *)
(***************************************************************************)
PagerFiles == {MissingFile, File(HeaderOnlyCsv), File(SmallCsv), File(TitlesCsv(MediumCatalogRows))}
VisitorFiles == {MissingFile, File(SmallCsv)}
AuditFiles == {MissingFile, File(""), File(HeaderOnlyCsv), File(SmallCsv), File(TitlesCsv(BigCatalogRows))}

InitPager == InitData(PagerFiles) /\ InitImage({NoText}, {{}}, {<<NoFile, NoFile>>}, 0, 0, 0)
NextPager == LoadSettle \/ PagerBegin \/ PagerResume \/ PagerNext
SpecPager == InitPager /\ [][NextPager]_vars
\* Node runs every continuation that is ready and every file read ends, and
\* the pager calls again as long as it is given a next offset.
FairSpecPager ==
  SpecPager /\ WF_vars(LoadSettle) /\ WF_vars(PagerResume) /\ WF_vars(PagerNext)

InitVisit == InitData(VisitorFiles) /\ InitImage({NoText}, {{}}, {<<NoFile, NoFile>>}, 0, 0, 0)
NextVisit == LoadSettle \/ \E v \in Visitors : VisitCall(v) \/ VisitResume(v)
SpecVisit == InitVisit /\ [][NextVisit]_vars

InitAudit == InitData(AuditFiles) /\ InitImage({NoText}, {{}}, {<<NoFile, NoFile>>}, 0, 0, 0)
NextAudit ==
  \/ LoadSettle
  \/ AuditMetaCall \/ AuditMetaResume
  \/ AuditListCall \/ AuditListResume
  \/ AuditOpenCall \/ AuditOpenResume
SpecAudit == InitAudit /\ [][NextAudit]_vars

(***************************************************************************)
(* Specifications of the image cache                                       *)
(***************************************************************************)
\* One caller after the other, while time passes.
InitImg ==
  /\ InitData({MissingFile})
  /\ InitImage({NoText, SomeText("abc"), SomeText("3600")}, {SeqRange(PROVIDERS), {"pixabay"}},
               {<<NoFile, NoFile>>, <<SeedFile, NoFile>>}, MaxCalls, MaxTicks, 0)
NextImg ==
  \/ ImgCall("r1") \/ ImgLookup("r1") \/ ImgFetch("r1")
  \/ \E which \in {"seed", "runtime"} : ReadSettle(which)
  \/ Tick
SpecImg == InitImg /\ [][NextImg]_vars

\* Two callers, the write sequences of persistStore, and a process that
\* may end at any point and start again.
InitPersist ==
  /\ InitData({MissingFile})
  /\ InitImage({NoText}, {{"pixabay"}}, {<<NoFile, NoFile>>}, MaxCalls, 0, MaxRestarts)
NextPersist ==
  \/ \E r \in Requesters : ImgCall(r) \/ ImgLookup(r) \/ ImgFetch(r)
  \/ \E which \in {"seed", "runtime"} : ReadSettle(which)
  \/ \E i \in 1..Len(writes) : WriteStep(i)
  \/ \E i \in 1..Len(writes) : WriteFail(i)
  \/ \E i \in 1..Len(writes) : WriteFinally(i)
  \/ Restart
SpecPersist == InitPersist /\ [][NextPersist]_vars

\* The first callers of getCache() and of getStore(), and cache files of
\* every kind.
InitBoot ==
  /\ InitData({MissingFile, File(SmallCsv)})
  /\ InitImage({NoText}, {{}},
               {<<NoFile, NoFile>>, <<BrokenFile, SeedFile>>, <<OtherVersionFile, MixedFile>>,
                <<SeedFile, MixedFile>>, <<MixedFile, NoFile>>},
               MaxCalls, 0, 0)
NextBoot ==
  \/ LoadSettle
  \/ \E v \in Visitors : MetaCall(v) \/ MetaResume(v)
  \/ \E r \in Requesters : ImgCall(r) \/ ImgLookup(r)
  \/ \E which \in {"seed", "runtime"} : ReadSettle(which)
SpecBoot == InitBoot /\ [][NextBoot]_vars

\* Requests to the route, one after the other.
InitRoute ==
  /\ InitData({MissingFile})
  /\ InitImage({NoText}, {{"pexels"}}, {<<NoFile, NoFile>>, <<SeedFile, NoFile>>}, MaxCalls, 0, 0)
NextRoute ==
  \/ RouteGet("r1") \/ RoutePost("r1") \/ RouteReturn("r1")
  \/ ImgLookup("r1") \/ ImgFetch("r1")
  \/ \E which \in {"seed", "runtime"} : ReadSettle(which)
SpecRoute == InitRoute /\ [][NextRoute]_vars

(***************************************************************************)
(* Properties of the query engine                                          *)
(***************************************************************************)
\* pages[1] \o .. \o pages[n]
Flatten(pages) == FoldRange(LAMBDA all, k : all \o pages[k], <<>>, 1, Len(pages))

NoDuplicate(ids) == \A i, j \in 1..Len(ids) : ids[i] = ids[j] => i = j

\* The record of the catalog a list item was made from.
RecordOfItem(cache, item) == cache.items[cache.byId[item.id]]

\* C1: a pager that starts at offset 0 and follows nextOffset ends after
\* finitely many calls, and once nextOffset is null the pages it was given,
\* one after the other, are the whole ordered result of its query: the ids
\* of the records its filters keep, each once, in the order of its sort.
C1_PagesAreTheResult ==
  /\ [](pager.status = "done" =>
          /\ Flatten(pager.pages)
               = MapSeq(LAMBDA entry : entry.item.id, Decorated(datasetCache.value, pager.options))
          /\ NoDuplicate(Flatten(pager.pages))
          /\ SeqRange(Flatten(pager.pages)) = SeqRange(IdsOf(Filtered(datasetCache.value, pager.options))))
  /\ ((pager.status = "calling" /\ csvFile.exists) ~> (pager.status = "done"))

\* The pager has ended after three pages or more of a filtered catalog in
\* random order.
C1_Witness ==
  /\ pager.status = "done"
  /\ Len(pager.pages) >= 3
  /\ pager.options.sort = ""
  /\ pager.options.excludePresets # <<>>
  /\ Len(Flatten(pager.pages)) < datasetCache.value.meta.total

\* C2: no record of a returned page has an ingredient slug that is among the
\* excluded ingredients of the call, and none matches an excluded preset.
C2_NoExcludedRecord ==
  \A v \in Visitors :
    visitors[v].status = "returned" =>
      \A k \in 1..Len(visitors[v].response.items) :
        /\ SeqRange(RecordOfItem(datasetCache.value, visitors[v].response.items[k]).ingredientSlugs)
             \cap SeqRange(visitors[v].options.excludeIngredients) = {}
        /\ \A preset \in SeqRange(visitors[v].options.excludePresets) :
             ~matchesPreset(RecordOfItem(datasetCache.value, visitors[v].response.items[k]), preset)

\* C8 as stated: the list asked for with limit = total has total items.
C8_ListHasTotalItems ==
  auditor.status \in {"listed", "opening", "opened"} =>
    Len(auditor.list.items) = auditor.meta.total

\* C8: a query without filters and with limit = total returns the first
\* min(total, MAX_LIMIT) records, with ids that differ one from another, and
\* getSmoothieBySlug of the slug of a returned item is the record of its id.
C8_ListAndLookup ==
  /\ auditor.status \in {"listed", "opening", "opened"} =>
       /\ Len(auditor.list.items) = Min(auditor.meta.total, MAX_LIMIT)
       /\ auditor.list.total = auditor.meta.total
       /\ NoDuplicate(IdsOf(auditor.list.items))
  /\ auditor.status = "opened" =>
       /\ auditor.detail # Null
       /\ auditor.detail.id = auditor.list.items[auditor.opened].id
       /\ auditor.detail.slug = auditor.list.items[auditor.opened].slug

\* Every item of a list cut at MAX_LIMIT has been looked up.
C8_Witness ==
  /\ auditor.status = "opened"
  /\ auditor.meta.total > MAX_LIMIT
  /\ auditor.opened = Len(auditor.list.items)

\* C9: a record of the catalog is tagged vegan exactly when its haystacks
\* hold no dairy term and no extra non-vegan term, so that no record is
\* tagged both lactose and vegan.
C9_VeganTag ==
  datasetCache.state = "fulfilled" =>
    \A k \in 1..Len(datasetCache.value.items) :
      /\ datasetCache.value.items[k].tags.vegan
           = ~(\/ containsAny(FlagHaystacks(datasetCache.value.items[k].ingredients,
                                            datasetCache.value.items[k].ingredientsRaw,
                                            datasetCache.value.items[k].directions), DAIRY_TERMS)
               \/ containsAny(FlagHaystacks(datasetCache.value.items[k].ingredients,
                                            datasetCache.value.items[k].ingredientsRaw,
                                            datasetCache.value.items[k].directions), NON_VEGAN_EXTRA_TERMS))
      /\ datasetCache.value.items[k].tags.lactose => ~datasetCache.value.items[k].tags.vegan

\* The catalog holds a record with dairy, one that is not vegan without
\* dairy, and a vegan one.
C9_Witness ==
  /\ datasetCache.state = "fulfilled"
  /\ \E k \in 1..Len(datasetCache.value.items) : datasetCache.value.items[k].tags.lactose
  /\ \E k \in 1..Len(datasetCache.value.items) :
       ~datasetCache.value.items[k].tags.lactose /\ ~datasetCache.value.items[k].tags.vegan
  /\ \E k \in 1..Len(datasetCache.value.items) : datasetCache.value.items[k].tags.vegan

\* Two visitors hold answers in random order for the same seed and the same
\* filtered set.
SameRandomQuery(v, w) ==
  /\ visitors[v].status = "returned" /\ visitors[w].status = "returned"
  /\ visitors[v].options.sort = "" /\ visitors[w].options.sort = ""
  /\ visitors[v].options.seed = visitors[w].options.seed
  /\ SeqRange(IdsOf(Filtered(datasetCache.value, visitors[v].options)))
       = SeqRange(IdsOf(Filtered(datasetCache.value, visitors[w].options)))

\* C10: two answers in random order for the same seed and the same filtered
\* set have the same id at every position of the order that both hold,
\* whichever calls were made before and whichever slices they asked for.
C10_SameOrder ==
  \A v, w \in Visitors :
    SameRandomQuery(v, w) =>
      \A i \in 1..Len(visitors[v].response.items) : \A j \in 1..Len(visitors[w].response.items) :
        visitors[v].response.offset.value + i = visitors[w].response.offset.value + j
          => visitors[v].response.items[i].id = visitors[w].response.items[j].id

\* Two such answers are different slices that have a position in common, and
\* come from calls with different filters.
C10_Witness ==
  /\ SameRandomQuery("v1", "v2")
  /\ visitors["v1"].options.excludeIngredients # visitors["v2"].options.excludeIngredients
  /\ visitors["v1"].response.offset # visitors["v2"].response.offset
  /\ \E i \in 1..Len(visitors["v1"].response.items) : \E j \in 1..Len(visitors["v2"].response.items) :
       visitors["v1"].response.offset.value + i = visitors["v2"].response.offset.value + j

(***************************************************************************)
(* Client request queue (hooks/useSuggestedImage)                          *)
(***************************************************************************)
MAX_CONCURRENT_REQUESTS == 3
MaxTasks == 5

\* A task of the queue: where it stands, and its rank among the tasks that
\* were started (0 as long as it waits).
QueuedTask == [status |-> "queued", rank |-> 0]

Ranked(ts) == {t \in 1..Len(ts) : ts[t].rank > 0}

\* execute() of a task was called and its finally callback has not run.
Running(ts) == {t \in 1..Len(ts) : ts[t].status \in {"started", "running", "fulfilled", "rejected"}}

RECURSIVE runQueuedNoLimit(_, _, _)
\* A runQueued that starts whatever waits.
runQueuedNoLimit(q, active, ts) ==
  IF Len(q) > 0
  THEN runQueuedNoLimit(Tail(q), active + 1,
                        [ts EXCEPT ![Head(q)] = [status |-> "started", rank |-> Cardinality(Ranked(ts)) + 1]])
  ELSE [queue |-> q, activeRequests |-> active, tasks |-> ts]

RECURSIVE runQueuedLastFirst(_, _, _)
\* A runQueued that takes the task that was queued last.
runQueuedLastFirst(q, active, ts) ==
  IF active < MAX_CONCURRENT_REQUESTS /\ Len(q) > 0
  THEN runQueuedLastFirst(SubSeq(q, 1, Len(q) - 1), active + 1,
                          [ts EXCEPT ![q[Len(q)]] = [status |-> "started", rank |-> Cardinality(Ranked(ts)) + 1]])
  ELSE [queue |-> q, activeRequests |-> active, tasks |-> ts]

RECURSIVE runQueued(_, _, _)
\* runQueued(): the loop shifts the queue and calls execute() of the task,
\* which leaves the task itself to a microtask.
runQueued(q, active, ts) ==
  IF active < MAX_CONCURRENT_REQUESTS /\ Len(q) > 0
  THEN runQueued(Tail(q), active + 1,
                 [ts EXCEPT ![Head(q)] = [status |-> "started", rank |-> Cardinality(Ranked(ts)) + 1]])
  ELSE [queue |-> q, activeRequests |-> active, tasks |-> ts]

HookBecomes(after) ==
  /\ queue' = after.queue
  /\ activeRequests' = after.activeRequests
  /\ tasks' = after.tasks
  /\ UNCHANGED <<dataVars, clientVars, imgVars, probe>>

\* enqueueRequest(task): queue.push(execute), then runQueued().
enqueueRequest ==
  /\ Len(tasks) < MaxTasks
  /\ HookBecomes(runQueued(Append(queue, Len(tasks) + 1), activeRequests, Append(tasks, QueuedTask)))

\* Promise.resolve().then(task): the task is called, and sends its request.
TaskCalled(t) ==
  /\ t \in DOMAIN tasks
  /\ tasks[t].status = "started"
  /\ HookBecomes([queue |-> queue, activeRequests |-> activeRequests,
                  tasks |-> [tasks EXCEPT ![t].status = "running"]])

\* The promise of the task is fulfilled (an url or null), or rejected (fetch
\* failed, or the answer was not ok); .then(resolve) and .catch(reject) pass
\* the outcome on.
TaskSettled(t) ==
  /\ t \in DOMAIN tasks
  /\ tasks[t].status = "running"
  /\ \E outcome \in {"fulfilled", "rejected"} :
       HookBecomes([queue |-> queue, activeRequests |-> activeRequests,
                    tasks |-> [tasks EXCEPT ![t].status = outcome]])

\* The finally callback: activeRequests = Math.max(0, activeRequests - 1),
\* then runQueued().
TaskFinally(t) ==
  /\ t \in DOMAIN tasks
  /\ tasks[t].status \in {"fulfilled", "rejected"}
  /\ HookBecomes(runQueued(queue, Max(0, activeRequests - 1), [tasks EXCEPT ![t].status = "done"]))

InitQueue == InitData({MissingFile}) /\ InitImage({NoText}, {{}}, {<<NoFile, NoFile>>}, 0, 0, 0)
NextQueue ==
  \/ enqueueRequest
  \/ \E t \in 1..MaxTasks : TaskCalled(t)
  \/ \E t \in 1..MaxTasks : TaskSettled(t)
  \/ \E t \in 1..MaxTasks : TaskFinally(t)
SpecQueue == InitQueue /\ [][NextQueue]_vars

(***************************************************************************)
(* Direct calls of the functions of the libraries                          *)
(***************************************************************************)
MaxCsvLen == 4
CsvAlphabet == {"a", ",", DQ, "\n", "\r", BOM}

RECURSIVE TextsOver(_, _)
\* The texts of at most n characters of the alphabet.
TextsOver(alphabet, n) ==
  IF n = 0 THEN {""}
  ELSE LET shorter == TextsOver(alphabet, n - 1)
       IN  shorter \cup {text \o c : text \in shorter, c \in alphabet}

\* parseCsvRows(text), called once.
ParseCsvCall ==
  /\ probe = NoProbe
  /\ \E text \in TextsOver(CsvAlphabet, MaxCsvLen) :
       probe' = [fn |-> "parseCsvRows", text |-> text, rows |-> parseCsvRows(text)]
  /\ UNCHANGED <<dataVars, clientVars, imgVars, hookVars>>

InitCsv == InitData({MissingFile}) /\ InitImage({NoText}, {{}}, {<<NoFile, NoFile>>}, 0, 0, 0)
NextCsv == ParseCsvCall
SpecCsv == InitCsv /\ [][NextCsv]_vars

QueryTitles ==
  {"", " ", "Smoothie", "Lait fraise", "Smoothie banane-mangue", "constructor", "Eau de coco",
   "kiwi pomme poire orange citron lime", "Fraises, fraise & FRAISE", "Thé glacé", "drink me", "Pêche Melba"}

QueryTagLists ==
  {<<>>, <<"vegan">>, <<"drink", "smoothie">>, <<"banane", "banana">>, <<"a b", "kiwi melon coco">>,
   <<"mangue", "ananas", "peche", "pomme", "poire", "orange">>, <<"fruit">>, <<"", "Vegan", "vegan">>,
   <<"sans-gluten", "noix">>}

\* buildImageQuery(title, tags), called once; the terms are those of its
\* call of pickQueryTerms.
BuildQueryCall ==
  /\ probe = NoProbe
  /\ \E title \in QueryTitles, tags \in QueryTagLists :
       probe' = [fn |-> "buildImageQuery", title |-> title, tags |-> tags,
                 terms |-> pickQueryTerms(title, tags), query |-> buildImageQuery(title, tags)]
  /\ UNCHANGED <<dataVars, clientVars, imgVars, hookVars>>

InitQuery == InitData({MissingFile}) /\ InitImage({NoText}, {{}}, {<<NoFile, NoFile>>}, 0, 0, 0)
NextQuery == BuildQueryCall
SpecQuery == InitQuery /\ [][NextQuery]_vars

\* A cell of a CSV line, quoted.
CsvCell(text) == DQ \o ConcatRange(LAMBDA i : IF Ch(text, i) = DQ THEN DQ \o DQ ELSE Ch(text, i), 1, Len(text)) \o DQ

\* A catalog of one recipe with these NER and ingredients cells.
IngredientCsv(ner, ingredients) ==
  "title,ingredients,NER\n" \o "Mix," \o CsvCell(ingredients) \o "," \o CsvCell(ner) \o "\n"

\* NER cells: none, a JSON list with a doubled name, a JSON list with a name
\* in quote marks and an entry that is a quote mark, quoted segments that are
\* no list, a list in typographic quotes.
NerCells ==
  {"",
   "[" \o DQ \o "lait" \o DQ \o ", " \o DQ \o " fraise " \o DQ \o ", " \o DQ \o "lait" \o DQ \o "]",
   "[" \o DQ \o "'lait'" \o DQ \o ", " \o DQ \o "'" \o DQ \o ", " \o DQ \o "lait" \o DQ \o "]",
   DQ \o "lait" \o DQ \o " et " \o DQ \o "miel" \o DQ \o " et " \o DQ \o "lait" \o DQ,
   "[" \o LDQUO \o "kiwi" \o RDQUO \o ", " \o LDQUO \o "kiwi" \o RDQUO \o "]"}

\* ingredients cells: none, a delimited list, quoted segments, guillemets.
IngredientCells ==
  {"", "lait; fraise , lait,a,, eau", DQ \o "1 c. lait" \o DQ \o ", " \o DQ \o "1 c.  lait" \o DQ,
   "«banane» «banane» «eau»"}

IngredientFiles == {File(IngredientCsv(ner, ingredients)) : ner \in NerCells, ingredients \in IngredientCells}

InitIngredients ==
  InitData(IngredientFiles) /\ InitImage({NoText}, {{}}, {<<NoFile, NoFile>>}, 0, 0, 0)
SpecIngredients == InitIngredients /\ [][NextAudit]_vars

\* Two callers whose calls overlap while time passes.
InitRace ==
  /\ InitData({MissingFile})
  /\ InitImage({NoText}, {{"pixabay"}}, {<<NoFile, NoFile>>}, MaxCalls, MaxTicks, 0)
NextRace ==
  \/ \E r \in Requesters : ImgCall(r) \/ ImgLookup(r) \/ ImgFetch(r)
  \/ \E which \in {"seed", "runtime"} : ReadSettle(which)
  \/ Tick
SpecRace == InitRace /\ [][NextRace]_vars

(***************************************************************************)
(* Properties of the image cache                                           *)
(***************************************************************************)
\* The entry the store holds for the key of a request is the one the
\* request built on its miss.
HoldsEntryOf(request) ==
  /\ GetEntry(store.entries, request.cacheKey) # Null
  /\ GetEntry(store.entries, request.cacheKey).createdAt = Num(request.now)
  /\ GetEntry(store.entries, request.cacheKey).items = request.response.items
  /\ GetEntry(store.entries, request.cacheKey).providers = request.response.providersUsed

\* A returned request that ran the fan-out and set its entry.
IsMiss(request) ==
  /\ ~request.response.cacheHit
  /\ request.calls # <<>>
  /\ HoldsEntryOf(request)

\* C3: a call answers cacheHit = true only from an entry whose expiresAt is
\* after the time of the request; with an entry for its key that expired at
\* or before that time it runs the providers and replaces the entry.
C3_NoHitFromExpiredEntry ==
  \A r \in Requesters :
    requests[r].status = "returned" =>
      /\ requests[r].response.cacheHit =>
           requests[r].found # Null /\ requests[r].found.expiresAt.value > requests[r].now
      /\ (requests[r].found # Null /\ requests[r].found.expiresAt.kind = "number"
          /\ requests[r].found.expiresAt.value <= requests[r].now) => IsMiss(requests[r])

\* A call that is not forced has returned after it found an entry that
\* expired at the very time of the request.
C3_Witness ==
  /\ requests["r1"].status = "returned"
  /\ ~requests["r1"].params.forceRefresh
  /\ requests["r1"].found # Null
  /\ requests["r1"].found.expiresAt = Num(requests["r1"].now)

\* C4: a call with forceRefresh never answers cacheHit = true: it runs the
\* providers and replaces the entry of its key with the one it builds.
C4_ForcedCallIsMiss ==
  \A r \in Requesters :
    (requests[r].status = "returned" /\ requests[r].params.forceRefresh) => IsMiss(requests[r])

\* A forced call has returned after it found a live entry for its key.
C4_Witness ==
  /\ requests["r1"].status = "returned"
  /\ requests["r1"].params.forceRefresh
  /\ requests["r1"].found # Null
  /\ After(requests["r1"].found.expiresAt, requests["r1"].now)

\* The limit a cache key was made with.
LimitOfKey(key) == NumberOf(SubSeq(key, IndexOfChar("|", key) + 1, Len(key))).value

\* Only urls that start with http:// or https://, none twice.
Sanitized(items) ==
  /\ \A k \in 1..Len(items) :
       StartsWith(LowerCase(items[k].url), "http://") \/ StartsWith(LowerCase(items[k].url), "https://")
  /\ \A j, k \in 1..Len(items) : items[j].url = items[k].url => j = k

\* C12 as stated: the items of every answer and of every entry of the store
\* are at most limit, with http(s) urls only, none twice.
C12_ListsSanitizedAndCut ==
  /\ \A r \in Requesters :
       requests[r].status = "returned" =>
         Sanitized(requests[r].response.items) /\ Len(requests[r].response.items) <= requests[r].limit
  /\ \A k \in 1..Len(store.entries) :
       Sanitized(store.entries[k].items) /\ Len(store.entries[k].items) <= LimitOfKey(store.entries[k].key)

\* C12: the items of every answer are at most limit, with http(s) urls only,
\* none twice; the items of every entry of the store have http(s) urls only,
\* none twice, and are at most the limit of the key when the entry was built
\* by a miss of this process (an entry read from a cache file keeps every
\* sanitized item the file gave it).
C12_ListsSanitized ==
  /\ \A r \in Requesters :
       requests[r].status = "returned" =>
         Sanitized(requests[r].response.items) /\ Len(requests[r].response.items) <= requests[r].limit
  /\ \A k \in 1..Len(store.entries) :
       /\ Sanitized(store.entries[k].items)
       /\ store.entries[k].key \in process.fresh =>
            Len(store.entries[k].items) <= LimitOfKey(store.entries[k].key)

\* A hit has answered the first item of an entry that holds more than the
\* limit of its key.
C12_Witness ==
  /\ requests["r1"].status = "returned"
  /\ requests["r1"].response.cacheHit
  /\ Len(requests["r1"].found.items) > requests["r1"].limit
  /\ Len(requests["r1"].response.items) = requests["r1"].limit

\* C13: a fetcher that fails (no key, aborted or rejected fetch, status that
\* is not 2xx, body that is no JSON) gives no item and does not end the
\* fan-out: the call returns, the failing provider is not among
\* providersUsed, the next provider is called, and when all three fail the
\* answer is an empty list with cacheHit = false.
C13_FailureGivesNoItem ==
  \A r \in Requesters :
    /\ \A k \in 1..Len(requests[r].calls) :
         requests[r].calls[k].failure # "" =>
           /\ requests[r].calls[k].count = 0
           /\ requests[r].calls[k].provider \notin SeqRange(requests[r].providersUsed)
           /\ requests[r].status = "returned" /\ k < Len(PROVIDERS) => Len(requests[r].calls) > k
    /\ (requests[r].status = "returned" /\ Len(requests[r].calls) = Len(PROVIDERS)
        /\ \A k \in 1..Len(PROVIDERS) : requests[r].calls[k].failure # "")
         => requests[r].response.items = <<>> /\ ~requests[r].response.cacheHit

\* A call has returned items after its first fetcher failed, or nothing
\* after all three did, one of them for want of a key.
C13_Witness ==
  /\ requests["r1"].status = "returned"
  /\ Len(requests["r1"].calls) = Len(PROVIDERS)
  /\ requests["r1"].calls[1].failure \notin {"", "no key"}
  /\ requests["r1"].calls[2].failure = ""
  /\ requests["r1"].response.items # <<>>

\* The entry a miss has set has createdAt = now and expiresAt = now + the
\* seconds given, times 1000.
MissEntryIs(request, seconds) ==
  /\ HoldsEntryOf(request)
  /\ GetEntry(store.entries, request.cacheKey).expiresAt
       = IF seconds.kind = "NaN" THEN NaN ELSE Num(request.now + 1000 * seconds.value)

\* max(3600, Number(IMAGE_CACHE_TTL_SECONDS)), 14 days when it is not set.
LongTtl == MathMax(3600, IF env.ttl.defined THEN NumberOf(env.ttl.text) ELSE Num(14 * 24 * 3600))

\* C18 as stated: the entry of a miss has createdAt = now and expiresAt =
\* now + the long TTL when it has items, now + the empty-result TTL when it
\* has none, and the empty-result TTL is shorter than the long one.
C18_EmptyTtlShorter ==
  \A r \in Requesters :
    (requests[r].status = "returned" /\ ~requests[r].response.cacheHit) =>
      /\ MissEntryIs(requests[r], IF requests[r].response.items # <<>> THEN CACHE_TTL_SECONDS(env.ttl)
                                  ELSE EMPTY_CACHE_TTL_SECONDS(env.ttl))
      /\ EMPTY_CACHE_TTL_SECONDS(env.ttl).kind = "number"
      /\ EMPTY_CACHE_TTL_SECONDS(env.ttl).value < CACHE_TTL_SECONDS(env.ttl).value

\* C18: the entry of a miss has createdAt = now and expiresAt = now + the
\* long TTL when it has items, now + the empty-result TTL when it has none;
\* the empty-result TTL is the smaller of the long TTL and six hours, so it
\* is never longer, and it is shorter when the long TTL is over six hours.
C18_EntryTimes ==
  \A r \in Requesters :
    (requests[r].status = "returned" /\ ~requests[r].response.cacheHit) =>
      MissEntryIs(requests[r], IF requests[r].response.items # <<>> THEN LongTtl
                               ELSE MathMin(LongTtl, 6 * 3600))

\* A miss without items has set an entry where the long TTL is an hour.
C18_Witness ==
  /\ requests["r1"].status = "returned"
  /\ ~requests["r1"].response.cacheHit
  /\ requests["r1"].response.items = <<>>
  /\ env.ttl = SomeText("3600")
  /\ GetEntry(store.entries, requests["r1"].cacheKey).expiresAt = Num(requests["r1"].now + 3600000)

\* C19: the fetchers are called one at a time in the order pexels, pixabay,
\* unsplash: the calls made are the first providers of that order, one
\* call is under way while the request is fetching, and a call was made
\* only while the items gathered before it were fewer than the limit.
C19_OneProviderAtATime ==
  \A r \in Requesters :
    /\ Len(requests[r].calls) <= Len(PROVIDERS)
    /\ \A k \in 1..Len(requests[r].calls) :
         /\ requests[r].calls[k].provider = PROVIDERS[k]
         /\ FoldRange(LAMBDA sum, j : sum + requests[r].calls[j].count, 0, 1, k - 1) < requests[r].limit
    /\ requests[r].status = "fetching" => requests[r].provider = Len(requests[r].calls) + 1

\* A call has returned after pexels alone, which gave as many items as the
\* limit.
C19_Witness ==
  /\ requests["r1"].status = "returned"
  /\ ~requests["r1"].response.cacheHit
  /\ Len(requests["r1"].calls) = 1
  /\ requests["r1"].calls[1].count >= requests["r1"].limit

\* C5, for a request made before the entry expires: when the runtime file
\* holds an entry that a miss built and persistStore wrote, a call that is
\* not forced and is the first of its process for the key (the store had
\* the key from the file) answers cacheHit = true with the items and the
\* providers of that entry, and calls no provider.
C5_ReloadedEntryIsHit ==
  \A r \in Requesters :
    (/\ requests[r].status \in {"fetching", "returned"}
     /\ ~requests[r].params.forceRefresh
     /\ requests[r].reloaded # Null
     /\ After(requests[r].reloaded.expiresAt, requests[r].now))
    => /\ requests[r].status = "returned"
       /\ requests[r].response.cacheHit
       /\ requests[r].calls = <<>>
       /\ requests[r].response.providersUsed = requests[r].reloaded.providers
       /\ requests[r].response.items = SliceSeq(requests[r].reloaded.items, 1, requests[r].limit)

\* C7: at most one write sequence of persistStore is under way, and
\* writePromise is set exactly while there is one: a persistStore that
\* finds it set starts no write, and the finally of the write resets it.
C7_OneWriteAtATime ==
  /\ Len(writes) <= 1
  /\ store.writePromise <=> Len(writes) = 1

\* Both callers have returned from a miss, and the one write under way has
\* the entry of one of them only.
C7_Witness ==
  /\ \A r \in Requesters : requests[r].status = "returned" /\ ~requests[r].response.cacheHit
  /\ Len(store.entries) = 2
  /\ Len(writes) = 1
  /\ writes[1].phase \in {"mkdir", "write", "rename"}
  /\ Len(writes[1].entries) = 1

\* C20: the runtime file is absent or holds the whole text of a persist,
\* whatever step of a write sequence failed and wherever the process ended.
C20_RuntimeFileIsWhole ==
  runtimeFile = NoFile \/ runtimeFile \in process.payloads

\* The process has ended after a writeFile left a part of its text, and the
\* runtime file holds an earlier persist.
C20_Witness ==
  /\ process.restarts = 0
  /\ tempFile = BrokenFile
  /\ runtimeFile.exists

\* The entries of a file that have every property of a CacheEntry, a number
\* for expiresAt, and that have not expired at the time given.
ValidLiveEntries(file, now) ==
  IF ~file.exists \/ ~file.valid \/ file.doc.version # Num(CACHE_FILE_VERSION) THEN {}
  ELSE {file.doc.entries[k] : k \in {j \in 1..Len(file.doc.entries) :
                                       /\ file.doc.entries[j].absent = {}
                                       /\ file.doc.entries[j].expiresAt.kind = "number"
                                       /\ file.doc.entries[j].expiresAt.value >= now}}

\* C6: loadDatasetInternal and initStore run at most once in a process,
\* whatever the order of the first callers: the CSV file and each cache
\* file are read once at most, and every caller of getDatasetMeta is
\* answered from the one build.
C6_BuiltOnce ==
  /\ csvReads <= 1
  /\ storePromise.seedReads <= 1
  /\ storePromise.runtimeReads <= 1
  /\ \A v \in Visitors : visitors[v].status = "counted" => visitors[v].meta = datasetCache.value.meta
  /\ \A v, w \in Visitors :
       (visitors[v].status \in {"counted", "failed"} /\ visitors[w].status \in {"counted", "failed"})
         => visitors[v].status = visitors[w].status

\* Two callers of each wait for the first build and the first load.
C6_Witness ==
  /\ \A v \in Visitors : visitors[v].status = "meta"
  /\ datasetCache.state = "pending"
  /\ csvReads = 1
  /\ \A r \in Requesters : requests[r].status = "store"
  /\ storePromise.state = "pending"
  /\ storePromise.seedReads = 1

\* C17, the part about entries: once the store is loaded it holds no entry
\* that lacks a property of a CacheEntry or has expired, and it holds the
\* key of every entry of the two files that is valid and live.
C17_OnlyValidEntriesLoaded ==
  storePromise.state = "fulfilled" =>
    /\ \A k \in 1..Len(store.entries) :
         /\ store.entries[k].absent = {}
         /\ store.entries[k].expiresAt.kind = "number"
         /\ store.entries[k].expiresAt.value >= clock
    /\ \A entry \in ValidLiveEntries(seedFile, clock) \cup ValidLiveEntries(runtimeFile, clock) :
         GetEntry(store.entries, entry.key) # Null

\* The title and the tags a request carries, blank ones left out.
CarriedTitle(http) ==
  IF http.method = "GET" THEN Trim(http.title.text)
  ELSE IF http.body = "object" /\ http.title.kind = "string" THEN Trim(http.title.text)
  ELSE ""

CarriedTags(http) ==
  IF http.method = "GET"
  THEN (IF http.tags.defined THEN FilterSeq(NonEmpty, MapSeq(Trim, SplitOn(http.tags.text, ","))) ELSE <<>>)
  ELSE IF http.body = "object" /\ http.tags.array
  THEN FilterSeq(NonEmpty, MapSeq(LAMBDA v : Trim(StringOfValue(v)), http.tags.values))
  ELSE <<>>

\* C11: a request to the route that carries no title that is not blank and
\* no tag that is not blank is answered 400 and getImageSuggestions is not
\* called; any other request is passed to getImageSuggestions and answered
\* with its payload.
C11_BlankRequestRejected ==
  \A r \in Requesters :
    requests[r].http # Null =>
      IF CarriedTitle(requests[r].http) = "" /\ CarriedTags(requests[r].http) = <<>>
      THEN /\ requests[r].status = "answered"
           /\ requests[r].answer.status = 400
           /\ requests[r].cacheKey = ""
      ELSE /\ requests[r].cacheKey # ""
           /\ requests[r].status = "answered" =>
                requests[r].answer = RouteResponse(200, requests[r].response)

\* C14 as stated: the limit querySmoothies answers is in 1..60: 24 when
\* none is given, min(60, max(1, limit)) for a limit that is given.
C14_LimitClamped ==
  \A v \in Visitors :
    visitors[v].status = "returned" =>
      /\ visitors[v].response.limit \in 1..60
      /\ visitors[v].response.limit
           = IF visitors[v].options.limit.kind = "undefined" THEN 24
             ELSE Min(60, Max(1, visitors[v].options.limit.value))

\* The ids of the ordered result from place first on, count of them.
IdsFrom(decorated, first, count) == [k \in 1..count |-> decorated[first + k - 1].item.id]

\* The offset a visitor asked for, 0 when it gave none.
AskedOffset(options) == IF options.offset.kind = "number" THEN options.offset.value ELSE 0

\* total records are left after the filters; the page holds the returned
\* records of the ordered result that follow the first offset ones.
SliceOf(response, options, ordered) ==
  LET returned == Max(0, Min(response.limit, Len(ordered) - AskedOffset(options)))
  IN  /\ response.total = Len(ordered)
      /\ response.offset = Num(AskedOffset(options))
      /\ Len(response.items) = returned
      /\ IdsOf(response.items) = IdsFrom(ordered, AskedOffset(options) + 1, returned)
      /\ response.nextOffset
           = IF AskedOffset(options) + returned < Len(ordered) THEN Num(AskedOffset(options) + returned)
             ELSE NullValue

\* C15: for an offset that is a natural number, total is the number of
\* records the filters leave, the page is the slice [offset, offset + limit)
\* of the ordered result, and nextOffset is offset + the number of items
\* returned when that is less than total, null otherwise.
C15_PageIsSlice ==
  \A v \in Visitors :
    visitors[v].status = "returned" =>
      /\ visitors[v].response.total = Len(Filtered(datasetCache.value, visitors[v].options))
      /\ SliceOf(visitors[v].response, visitors[v].options,
                 Decorated(datasetCache.value, visitors[v].options))

\* One visitor has a full page from the middle with more to come, the other
\* asked for the offset that is the total and has nothing.
C15_Witness ==
  /\ visitors["v1"].status = "returned"
  /\ visitors["v1"].response.offset = Num(1)
  /\ Len(visitors["v1"].response.items) = 3
  /\ visitors["v1"].response.nextOffset = Num(4)
  /\ visitors["v2"].status = "returned"
  /\ visitors["v2"].response.total = 5
  /\ visitors["v2"].response.offset = Num(5)
  /\ visitors["v2"].response.items = <<>>
  /\ visitors["v2"].response.nextOffset = NullValue

\* The rows of a CSV text after the header that have a cell that is not
\* blank.
RowsWithText(rows) ==
  FilterSeq(LAMBDA row : \E k \in 1..Len(row) : normalizeWhitespace(row[k]) # "",
            IF Len(rows) < 2 THEN <<>> ELSE SubSeq(rows, 2, Len(rows)))

\* The k-th record of the catalog is the k-th such row: sm-k, a slug that
\* ends with -k, and the title of the row.
NumberedByAcceptedRows(items, rows) ==
  /\ Len(items) = Len(RowsWithText(rows))
  /\ \A k \in 1..Len(items) :
       /\ items[k].id = "sm-" \o DecimalOf(k)
       /\ EndsWith(items[k].slug, "-" \o DecimalOf(k))
       /\ items[k].title = normalizeWhitespace(RowsWithText(rows)[k][1])

C21_FailedWriteKeepsEntry ==
  [][/\ \A key \in process.lost : GetEntry(store.entries, key) # Null
     /\ writes = <<>> => ~store.writePromise
     /\ \A r \in Requesters :
          (/\ requests[r].status = "store"
           /\ requests'[r].status \notin {"store", "idle"}
           /\ requests[r].cacheKey \in process.lost
           /\ ~requests[r].params.forceRefresh)
          => /\ requests'[r].status = "returned"
             /\ requests'[r].response.cacheHit
             /\ requests'[r].response.items
                  = SliceSeq(GetEntry(store.entries, requests[r].cacheKey).items, 1, requests[r].limit)]_vars

\* The one write of the process has failed and ended, no file was written,
\* and a call has been answered from the cache for the key of that write.
C21_Witness ==
  /\ \E r \in Requesters :
       /\ requests[r].status = "returned"
       /\ requests[r].response.cacheHit
       /\ requests[r].cacheKey \in process.lost
       /\ requests[r].reloaded = Null
  /\ runtimeFile = NoFile
  /\ writes = <<>>
  /\ ~store.writePromise

\* The keys of the entries of a file of version 1 that can be read.
FileKeys(file) ==
  IF ~file.exists \/ ~file.valid \/ file.doc.version # Num(CACHE_FILE_VERSION) THEN {}
  ELSE {file.doc.entries[k].key : k \in 1..Len(file.doc.entries)}

\* The valid live entry a file has for a key.
EntryOfFile(file, key, now) == CHOOSE entry \in ValidLiveEntries(file, now) : entry.key = key

HasEntry(file, key, now) == \E entry \in ValidLiveEntries(file, now) : entry.key = key

\* The index holds the entry, its items sanitized.
Holds(entry) == GetEntry(store.entries, entry.key) = [entry EXCEPT !.items = sanitizeItems(@)]

\* C22: once initStore has ended, a key with a valid live entry in the seed
\* file and in the runtime file has the runtime entry in the index, and a
\* key with a valid live entry in one file and no entry in the other has
\* the entry of that file.
C22_RuntimeOverSeed ==
  storePromise.state = "fulfilled" =>
    \A key \in FileKeys(seedFile) \cup FileKeys(runtimeFile) :
      /\ HasEntry(runtimeFile, key, clock) /\ (HasEntry(seedFile, key, clock) \/ key \notin FileKeys(seedFile))
           => Holds(EntryOfFile(runtimeFile, key, clock))
      /\ HasEntry(seedFile, key, clock) /\ key \notin FileKeys(runtimeFile)
           => Holds(EntryOfFile(seedFile, key, clock))

\* The store is loaded from a seed file and a runtime file that have a key
\* in common with unlike entries, and a key that the seed file alone has.
C22_Witness ==
  /\ storePromise.state = "fulfilled"
  /\ seedFile = SeedFile
  /\ runtimeFile = MixedFile
  /\ GetEntry(store.entries, SeedEntry.key).expiresAt = Num(SeedExpiry + 1)
  /\ GetEntry(store.entries, ForeignEntry.key) # Null
  /\ Len(GetEntry(store.entries, ForeignEntry.key).items) = 2

\* The providers of the items of a list.
ProvidersOf(items) == {items[k].provider : k \in 1..Len(items)}

\* C23 as stated: in the answer of a miss and in the entry it sets, a
\* provider is listed if and only if an item of the list comes from it.
C23_ListedIffInItems ==
  \A r \in Requesters :
    (requests[r].status = "returned" /\ ~requests[r].response.cacheHit) =>
      /\ SeqRange(requests[r].response.providersUsed) = ProvidersOf(requests[r].response.items)
      /\ HoldsEntryOf(requests[r])

\* C23: in the answer of a miss and in the entry it sets, the providers
\* listed are, in the order of the calls, those whose fetcher returned an
\* item, before the items are sanitized and cut; every item of the list
\* comes from a provider that is listed.
C23_ListedIffAnswered ==
  \A r \in Requesters :
    (requests[r].status = "returned" /\ ~requests[r].response.cacheHit) =>
      /\ requests[r].response.providersUsed
           = MapSeq(LAMBDA call : call.provider,
                    FilterSeq(LAMBDA call : call.count > 0, requests[r].calls))
      /\ ProvidersOf(requests[r].response.items) \subseteq SeqRange(requests[r].response.providersUsed)
      /\ HoldsEntryOf(requests[r])

\* A miss has listed unsplash, whose only item has the url of an item of
\* pexels and is not in the answer.
C23_Witness ==
  /\ requests["r1"].status = "returned"
  /\ ~requests["r1"].response.cacheHit
  /\ requests["r1"].response.providersUsed = PROVIDERS
  /\ ProvidersOf(requests["r1"].response.items) = {"pexels", "pixabay"}

\* The items the fetchers called have returned, before any is left out.
ReturnedCount(calls) == FoldRange(LAMBDA sum, k : sum + calls[k].count, 0, 1, Len(calls))

\* C29 as stated: a miss that answers fewer items than the limit has called
\* every provider.
C29_ShortMeansAllCalled ==
  \A r \in Requesters :
    (/\ requests[r].status = "returned"
     /\ ~requests[r].response.cacheHit
     /\ Len(requests[r].response.items) < requests[r].limit)
    => Len(requests[r].calls) = Len(PROVIDERS)

\* C29: a miss that has not called every provider has been returned at
\* least limit items by the fetchers it called, counted before the items
\* are sanitized; what it answers may still be fewer than the limit.
C29_StopsOnReturnedCount ==
  \A r \in Requesters :
    (/\ requests[r].status = "returned"
     /\ ~requests[r].response.cacheHit
     /\ Len(requests[r].calls) < Len(PROVIDERS))
    => ReturnedCount(requests[r].calls) >= requests[r].limit

\* A miss for one item has ended after pexels, whose only photo has no
\* url, and answers no item.
C29_Witness ==
  /\ requests["r1"].status = "returned"
  /\ ~requests["r1"].response.cacheHit
  /\ requests["r1"].limit = 1
  /\ Len(requests["r1"].calls) = 1
  /\ requests["r1"].response.items = <<>>
  /\ requests["r1"].response.providersUsed = <<"pexels">>

\* C27: when every call has returned, no write is under way and none has
\* failed, the runtime file has every entry of the index, among them an
\* entry that was set while a write was under way.
C27_IndexIsWritten ==
  (/\ storePromise.state = "fulfilled"
   /\ \A r \in Requesters : requests[r].status \in {"idle", "returned"}
   /\ writes = <<>>
   /\ process.lost = {})
  => \A k \in 1..Len(store.entries) :
       /\ runtimeFile.exists
       /\ GetEntry(process.persisted, store.entries[k].key) # Null
       /\ GetEntry(process.persisted, store.entries[k].key).createdAt = store.entries[k].createdAt

\* C28: whenever the entry of a key is replaced in the index, the new
\* entry has a createdAt that is not before that of the entry it replaces.
C28_CreatedAtNeverGoesBack ==
  [][\A k \in 1..Len(store.entries) :
       GetEntry(store'.entries, store.entries[k].key) # Null
         => GetEntry(store'.entries, store.entries[k].key).createdAt.value
              >= store.entries[k].createdAt.value]_vars

\* C30: in the request queue of useSuggestedImage, activeRequests is the
\* number of tasks that were started and whose finally callback has not run,
\* it stays within 0..3, the tasks that wait are those of the queue, and
\* tasks are started in the order of the enqueueRequest calls.
C30_ActiveMatchesRunning ==
  /\ activeRequests = Cardinality(Running(tasks))
  /\ activeRequests \in 0..MAX_CONCURRENT_REQUESTS
  /\ \A t \in 1..Len(tasks) : tasks[t].status # "queued" => tasks[t].rank = t
  /\ queue = SortedSeq({t \in 1..Len(tasks) : tasks[t].status = "queued"})

\* A fourth and a fifth task wait while three run, one of the three has
\* failed and freed its slot, and the fourth was started in its place.
C30_Witness ==
  /\ Len(tasks) = MaxTasks
  /\ \E t \in 1..3 : tasks[t].status = "done"
  /\ tasks[4].status = "started"
  /\ queue = <<5>>
  /\ activeRequests = MAX_CONCURRENT_REQUESTS

\* The character at i is outside quotes: an even number of quote characters
\* comes before it.
Unquoted(text, i) == Cardinality({k \in 1..(i - 1) : Ch(text, k) = DQ}) % 2 = 0

\* Position of the last line terminator outside quotes, 0 when there is none.
LastBreak(text) ==
  MaxOf({0} \cup {i \in 1..Len(text) : Ch(text, i) \in {"\n", "\r"} /\ Unquoted(text, i)})

TrailingText(text) == SubSeq(text, LastBreak(text) + 1, Len(text))

\* The text with its last line ended: the quotes closed when they are open,
\* and a line feed.  The mark put in front is the one stripBom removes.
Terminated(text) ==
  BOM \o text \o (IF Unquoted(text, Len(text) + 1) THEN "" ELSE DQ) \o "\n"

\* What parseCsvRows said of probe.text, next to the rows of the same text
\* with its last line ended.
CsvProbed == probe.fn = "parseCsvRows"
CsvText == stripBom(probe.text)
CsvReference == parseCsvRows(Terminated(CsvText))

\* C24 as stated: parseCsvRows returns rows for every text, and whenever
\* characters follow the last line terminator outside quotes, the last row
\* returned is the row of those characters.
C24_TrailingRowEmitted ==
  (CsvProbed /\ TrailingText(CsvText) # "")
    => /\ probe.rows # <<>>
       /\ probe.rows = CsvReference

\* C24: parseCsvRows returns rows of at least one field for every text; when
\* characters follow the last line terminator outside quotes, the rows are
\* those of the text with its last line ended, except that a last row of one
\* empty field (the characters are quotes around nothing) is not returned;
\* when no character follows it, ending the line adds no row.
C24_TrailingRowUnlessEmptyField ==
  CsvProbed
    => /\ \A k \in 1..Len(probe.rows) : Len(probe.rows[k]) >= 1
       /\ probe.rows = IF TrailingText(CsvText) = "" THEN parseCsvRows(BOM \o CsvText)
                       ELSE IF CsvReference[Len(CsvReference)] = <<"">>
                            THEN SubSeq(CsvReference, 1, Len(CsvReference) - 1)
                            ELSE CsvReference
       /\ TrailingText(CsvText) = "" => Len(probe.rows) = Cardinality({i \in 1..Len(CsvText) :
                                           /\ Ch(CsvText, i) \in {"\n", "\r"}
                                           /\ Unquoted(CsvText, i)
                                           /\ ~(i > 1 /\ Ch(CsvText, i) = "\n" /\ Ch(CsvText, i - 1) = "\r")})

\* A row, then a last line that opens a quote and never closes it.
C24_Witness ==
  /\ CsvProbed
  /\ probe.text = "a\n" \o DQ \o "a"
  /\ probe.rows = <<<<"a">>, <<"a">>>>

\* The tokens of the values that may become terms, translated, in order.
CandidateTerms(values) ==
  FoldRange(LAMBDA all, k :
              all \o MapSeq(Translated,
                            FilterSeq(LAMBDA token : Len(token) >= MIN_TERM_LENGTH /\ token \notin STOP_TERMS,
                                      splitTokens(values[k]))),
            <<>>, 1, Len(values))

FirstTerms(candidates) == SliceSeq(UniqueFrom(candidates, {}), 1, MAX_QUERY_TERMS)

\* The terms of a query: those of the tags, and those of the title after
\* them when the tags give fewer than three.
ExpectedTerms(title, tags) ==
  IF Len(FirstTerms(CandidateTerms(tags))) < TITLE_BELOW_TERMS
  THEN FirstTerms(CandidateTerms(tags) \o CandidateTerms(<<title>>))
  ELSE FirstTerms(CandidateTerms(tags))

QueryProbed == probe.fn = "buildImageQuery"

TermsAreExtracted ==
  /\ probe.terms = ExpectedTerms(probe.title, probe.tags)
  /\ Len(probe.terms) <= MAX_QUERY_TERMS
  /\ NoDuplicate(probe.terms)
  /\ \A k \in 1..Len(probe.terms) : probe.terms[k] \notin STOP_TERMS

\* C25 as stated: the query is the extracted terms (at most 5, distinct, no
\* stop term) followed by smoothie and drink, and it is the default phrase
\* when no term was extracted.
C25_DefaultPhraseWithoutTerms ==
  QueryProbed
    => /\ TermsAreExtracted
       /\ probe.query = IF probe.terms = <<>> THEN "fruit smoothie drink"
                         ELSE JoinWith(probe.terms \o <<"smoothie", "drink">>, " ")

\* C25: the query is the extracted terms (at most 5, distinct, no stop term)
\* followed by smoothie and drink, which are stop terms and so never among
\* them; without any term it is "smoothie drink", not the default phrase.
C25_TermsThenSmoothieDrink ==
  QueryProbed
    => /\ TermsAreExtracted
       /\ probe.query = JoinWith(probe.terms \o <<"smoothie", "drink">>, " ")
       /\ probe.terms = <<>> => probe.query = "smoothie drink"

\* No term comes out of a title and tags that hold stop terms and short
\* tokens only.
C25_Witness ==
  /\ QueryProbed
  /\ probe.title = "drink me"
  /\ probe.tags = <<"drink", "smoothie">>
  /\ probe.terms = <<>>
  /\ probe.query = "smoothie drink"

\* C26: every record of the catalog has a list of ingredients without blank
\* entry and without two entries that are the same once normalized.
C26_NoBlankNoDuplicate ==
  datasetCache.state = "fulfilled"
    => \A k \in 1..Len(datasetCache.value.items) :
         LET ingredients == datasetCache.value.items[k].ingredients
         IN  /\ \A i \in 1..Len(ingredients) : normalizeWhitespace(ingredients[i]) # ""
             /\ NoDuplicate(MapSeq(normalizeWhitespace, ingredients))

=============================================================================
